---- MODULE Spec2Model ----
(***************************************************************************)
(* Model of the LLRP codec runtime of llrp-codegen (base/common.rs) and of *)
(* the decode/encode bodies that codegen.rs emits for a parameter schema.  *)
(* A decoder is the record [bytes, bits, valid_bits]; a fallible call      *)
(* returns [ok, err, val, d, log] where d is the decoder after the call    *)
(* and log is the list of tlv_param scopes the call opened (a ghost).      *)
(***************************************************************************)
EXTENDS Integers, Sequences, FiniteSets, TLC

VARIABLES data, decoder, encoder, last, value, pc

vars == <<data, decoder, encoder, last, value, pc>>

-----------------------------------------------------------------------------
(* Machine arithmetic                                                      *)

RECURSIVE Pow2(_)
Pow2(n) == IF n = 0 THEN 1 ELSE 2 * Pow2(n - 1)

U8Mod == 256
U16Mod == 65536
U32Bits == 32

RECURSIVE BitOr(_, _)
BitOr(a, b) ==
    IF a = 0 THEN b
    ELSE IF b = 0 THEN a
    ELSE (IF (a % 2 = 1) \/ (b % 2 = 1) THEN 1 ELSE 0) + 2 * BitOr(a \div 2, b \div 2)

\* u32 `x << n` (the bits shifted past bit 31 are lost; a number the checker
\* can hold is below 2^31, so for n <= 1 the reduction keeps it as it is),
\* `x >> n` and `x & ((1 << n) - 1)`
Shl32(x, n) ==
    (IF U32Bits - n >= U32Bits - 1 THEN x ELSE x % Pow2(U32Bits - n)) * Pow2(n)
Shr(x, n) == x \div Pow2(n)
LowBits(x, n) == x % Pow2(n)

\* u16::from_be_bytes / to_be_bytes
from_be_bytes(bs) == IF Len(bs) = 1 THEN bs[1] ELSE bs[1] * 256 + bs[2]
to_be_bytes16(x) == <<(x \div 256) % 256, x % 256>>

\* the one element of a singleton set: binds an intermediate result to a name
Once(S) == CHOOSE x \in S : TRUE

Drop(s, n) == SubSeq(s, n + 1, Len(s))
Take(s, n) == SubSeq(s, 1, n)

-----------------------------------------------------------------------------
(* Results and errors                                                      *)

NoErr == [kind |-> "none", a |-> 0, b |-> 0]
InsufficientData(needed, remaining) ==
    [kind |-> "InsufficientData", a |-> needed, b |-> remaining]
TrailingBytes(n) == [kind |-> "TrailingBytes", a |-> n, b |-> 0]
TrailingBits(n) == [kind |-> "TrailingBits", a |-> n, b |-> 0]
TlvParameterLengthInvalid(n) == [kind |-> "TlvParameterLengthInvalid", a |-> n, b |-> 0]
InvalidType(n) == [kind |-> "InvalidType", a |-> n, b |-> 0]

Ok(v, d, log) == [ok |-> TRUE, err |-> NoErr, val |-> v, d |-> d, log |-> log]
Err(e, d, log) == [ok |-> FALSE, err |-> e, val |-> <<>>, d |-> d, log |-> log]

-----------------------------------------------------------------------------
(* Decoder primitives                                                      *)

\* Decoder::new
NewDecoder(bytes) == [bytes |-> bytes, bits |-> 0, valid_bits |-> 0]

Tv(id) == [tv |-> TRUE, id |-> id]
Tlv(id) == [tv |-> FALSE, id |-> id]

\* ParameterType::as_u16
as_u16(ty) == ty.id

\* Decoder::peek_param_type (takes &self: the decoder is returned unchanged)
peek_param_type(d) ==
    IF Len(d.bytes) < 2
    THEN Err(InsufficientData(2, Len(d.bytes)), d, <<>>)
    ELSE IF d.bytes[1] >= 128
         THEN Ok(Tv(d.bytes[1] % 128), d, <<>>)
         ELSE Ok(Tlv((d.bytes[1] * 256 + d.bytes[2]) % 1024), d, <<>>)

\* Decoder::get_message_type
get_message_type(d) ==
    Once({ IF p.ok THEN Ok(p.val.id, d, <<>>) ELSE p : p \in { peek_param_type(d) } })

CheckAdvance(ty) == IF ty.tv THEN 1 ELSE 2

\* Decoder::check_param_type
check_param_type(d, type_id) ==
    Once({ IF ~p.ok THEN p
           ELSE IF p.val.id = type_id
                THEN Ok(<<>>, [d EXCEPT !.bytes = Drop(d.bytes, CheckAdvance(p.val))], <<>>)
                ELSE Err(InvalidType(as_u16(p.val)), d, <<>>) :
           p \in { peek_param_type(d) } })

\* Decoder::read_bytes
read_bytes(d, num_bytes) ==
    IF Len(d.bytes) < num_bytes
    THEN Err(InsufficientData(num_bytes, Len(d.bytes)), d, <<>>)
    ELSE Ok(Take(d.bytes, num_bytes), [d EXCEPT !.bytes = Drop(d.bytes, num_bytes)], <<>>)

\* impl_llrp_value_primitive!: decode of u8 (1 byte) and u16 (2 bytes)
read_primitive(d, num_bytes) ==
    Once({ IF r.ok THEN Ok(from_be_bytes(r.val), r.d, <<>>) ELSE r :
           r \in { read_bytes(d, num_bytes) } })

\* The refill loop of Decoder::read_bits
RECURSIVE ReadBitsFill(_, _)
ReadBitsShift(d, num_bits, r) ==
    IF ~r.ok THEN r
    ELSE ReadBitsFill([r.d EXCEPT !.bits = BitOr(Shl32(d.bits, 8), r.val),
                                  !.valid_bits = d.valid_bits + 8],
                      num_bits)

ReadBitsFill(d, num_bits) ==
    IF d.valid_bits < num_bits
    THEN Once({ ReadBitsShift(d, num_bits, r) : r \in { read_primitive(d, 1) } })
    ELSE Ok(<<>>, d, <<>>)

\* Bits::from_bits for u16 (the widest host type of a bit field)
from_bits_u16(x) == x % U16Mod

\* A variant of ReadBitsTake that peels the bits from the low end of the
\* accumulator
ReadBitsTakeLow(f, num_bits) ==
    IF ~f.ok THEN f
    ELSE Ok(from_bits_u16(LowBits(f.d.bits, num_bits)),
            [f.d EXCEPT !.bits = Shr(f.d.bits, num_bits),
                        !.valid_bits = f.d.valid_bits - num_bits],
            <<>>)

\* Decoder::read_bits::<u16>, after the refill loop
ReadBitsTake(f, num_bits) ==
    IF ~f.ok THEN f
    ELSE LET offset == f.d.valid_bits - num_bits
             out == Shr(f.d.bits, offset)
         IN  Ok(from_bits_u16(out),
                [f.d EXCEPT !.bits = LowBits(f.d.bits, offset),
                            !.valid_bits = f.d.valid_bits - num_bits],
                <<>>)

read_bits(d, num_bits) ==
    Once({ ReadBitsTake(f, num_bits) : f \in { ReadBitsFill(d, num_bits) } })

\* Decoder::validate_consumed
validate_consumed(d) ==
    IF Len(d.bytes) # 0
    THEN Err(TrailingBytes(Len(d.bytes)), d, <<>>)
    ELSE Ok(<<>>, d, <<>>)

-----------------------------------------------------------------------------
(* The parameter schema handed to the generator (repr.rs Definition/Field) *)

Field(enc, cont, ty, tv_id, num_bits) ==
    [enc |-> enc, cont |-> cont, ty |-> ty, tv_id |-> tv_id, num_bits |-> num_bits]

U8Field == Field("Manual", "Raw", "u8", 0, 0)
BitsField(n) == Field("RawBits", "Raw", "u16", 0, n)
TlvField(cont, ty) == Field("TlvParameter", cont, ty, 0, 0)
TvField(cont, ty, tv_id) == Field("TvParameter", cont, ty, tv_id, 0)
ArrayField == Field("ArrayOfT", "Raw", "u8", 0, 0)

NodeId == 128
LeafId == 129
MarkId == 130
NibbleId == 131
PackedId == 132
BlobId == 133
SerialTvId == 1
TickTvId == 2

\* Definition::Parameter { id, fields }, Definition::Choice { choices } and the
\* primitives; a single-field TV parameter is an alias of its scalar type.
Definition(ty) ==
    CASE ty = "Node" ->
           [kind |-> "param", id |-> NodeId,
            fields |-> << U8Field,
                          TvField("Option", "u8", SerialTvId),
                          TlvField("Option", "Leaf"),
                          TlvField("Vec", "Item"),
                          TlvField("OptionBox", "Node") >>]
      [] ty = "Leaf" ->
           [kind |-> "param", id |-> LeafId, fields |-> << U8Field >>]
      [] ty = "Mark" ->
           [kind |-> "param", id |-> MarkId, fields |-> << >>]
      [] ty = "Nibble" ->
           [kind |-> "param", id |-> NibbleId, fields |-> << BitsField(4) >>]
      [] ty = "Packed" ->
           [kind |-> "param", id |-> PackedId,
            fields |-> << BitsField(4), BitsField(12) >>]
      [] ty = "Blob" ->
           [kind |-> "param", id |-> BlobId, fields |-> << ArrayField >>]
      [] ty = "Item" ->
           [kind |-> "choice", id |-> 0,
            fields |-> << TvField("Raw", "u8", TickTvId), TlvField("Raw", "Mark") >>]
      [] ty = "u8" -> [kind |-> "prim", id |-> 0, fields |-> << >>, size |-> 1]
      [] ty = "u16" -> [kind |-> "prim", id |-> 0, fields |-> << >>, size |-> 2]

-----------------------------------------------------------------------------
(* Decoder::tlv_param and the decode bodies of the generated types         *)

NoDecoder == NewDecoder(<< >>)

\* One entry of the ghost log. kind "tlv": a tlv_param call on the decoder
\* `outer`, whether body was invoked, the sub-decoder before and after body,
\* whether body returned Ok, the result of the call and the decoder after it.
\* kind "tv": a TV header accepted by decode_tv on the decoder `outer`.
Scope(tlv_id, outer, called, sub_in, sub_out, body_ok, res_ok, err, after) ==
    [kind |-> "tlv", id |-> tlv_id, outer |-> outer, called |-> called,
     sub_in |-> sub_in, sub_out |-> sub_out, body_ok |-> body_ok,
     ok |-> res_ok, err |-> err, after |-> after]

NotCalled(tlv_id, d, err) ==
    Scope(tlv_id, d, FALSE, NoDecoder, NoDecoder, FALSE, FALSE, err, d)

TvHeader(tv_id, outer, after) ==
    [kind |-> "tv", id |-> tv_id, outer |-> outer, called |-> FALSE,
     sub_in |-> NoDecoder, sub_out |-> NoDecoder, body_ok |-> FALSE,
     ok |-> TRUE, err |-> NoErr, after |-> after]

\* can_decode_type of a choice: the ids of its variants
ChoiceIds(def) ==
    { IF def.fields[i].enc = "TvParameter"
      THEN def.fields[i].tv_id
      ELSE Definition(def.fields[i].ty).id : i \in 1..Len(def.fields) }

\* LLRPValue::can_decode_type (default false; parameter: type_num == id;
\* choice: contained in the id list; Option/Box/Vec delegate to T)
can_decode_type(ty, type_num) ==
    \E def \in { Definition(ty) } :
        CASE def.kind = "param" -> type_num = def.id
          [] def.kind = "choice" -> type_num \in ChoiceIds(def)
          [] OTHER -> FALSE

\* Variants of the three definitions below, each weaker than the code: the
\* body sees the rest of the buffer, a length below 4 is let through, unread
\* bytes are tolerated.
ClipBodyToEnd(bytes, param_len) == SubSeq(bytes, 5, Len(bytes))
LengthInvalidAbove(d, param_len) == param_len > Len(d.bytes)
tlv_validate_relaxed(sub) == Ok(<< >>, sub, << >>)

\* The slice the sub-decoder of tlv_param is clipped to: &self.bytes[4..param_len]
ClipBody(bytes, param_len) == SubSeq(bytes, 5, param_len)

\* if param_len < 4 || param_len > self.bytes.len()
LengthInvalid(d, param_len) == param_len < 4 \/ param_len > Len(d.bytes)

\* decoder.validate_consumed()? at the end of tlv_param
tlv_validate(sub) == validate_consumed(sub)

RECURSIVE DecodeTy(_, _)
RECURSIVE DecodeCont(_, _, _)
RECURSIVE DecodeTvCont(_, _, _, _)
RECURSIVE DecodeField(_, _)
RECURSIVE DecodeFields(_, _, _, _, _)
RECURSIVE VecLoop(_, _, _, _)
RECURSIVE tlv_param(_, _, _)
RECURSIVE DecodeChoice(_, _, _)

\* Decoder::tlv_param, last part: decoder.validate_consumed()? and
\* self.bytes = &self.bytes[param_len..]
TlvFinish(d, tlv_id, param_len, sub, body) ==
    LET v == tlv_validate(body.d)
        after == [d EXCEPT !.bytes = Drop(d.bytes, param_len)]
    IN  IF ~body.ok
        THEN Err(body.err, d,
                 body.log \o << Scope(tlv_id, d, TRUE, sub, body.d, FALSE, FALSE, body.err, d) >>)
        ELSE IF ~v.ok
        THEN Err(v.err, d,
                 body.log \o << Scope(tlv_id, d, TRUE, sub, body.d, TRUE, FALSE, v.err, d) >>)
        ELSE Ok(body.val, after,
                body.log \o << Scope(tlv_id, d, TRUE, sub, body.d, TRUE, TRUE, NoErr, after) >>)

\* Decoder::tlv_param: the closure of define_parameter (the fields in order)
\* runs on the clipped sub-decoder
TlvBody(d, tlv_id, fields, param_len, sub) ==
    Once({ TlvFinish(d, tlv_id, param_len, sub, body) :
           body \in { DecodeFields(fields, 1, sub, << >>, << >>) } })

\* A variant of TlvLength without the clone: a length that is refused leaves
\* the cursor behind the header
TlvLengthShared(d, tlv_id, fields, l) ==
    IF ~l.ok
    THEN Err(l.err, d, << NotCalled(tlv_id, d, l.err) >>)
    ELSE IF LengthInvalid(d, l.val)
    THEN Err(TlvParameterLengthInvalid(l.val % U16Mod), l.d,
             << Scope(tlv_id, d, FALSE, NoDecoder, NoDecoder, FALSE, FALSE,
                      TlvParameterLengthInvalid(l.val % U16Mod), l.d) >>)
    ELSE TlvBody(d, tlv_id, fields, l.val, [l.d EXCEPT !.bytes = ClipBody(d.bytes, l.val)])

\* Decoder::tlv_param: the length field is validated and the clone clipped
TlvLength(d, tlv_id, fields, l) ==
    IF ~l.ok
    THEN Err(l.err, d, << NotCalled(tlv_id, d, l.err) >>)
    ELSE IF LengthInvalid(d, l.val)
    THEN Err(TlvParameterLengthInvalid(l.val % U16Mod), d,
             << NotCalled(tlv_id, d, TlvParameterLengthInvalid(l.val % U16Mod)) >>)
    ELSE TlvBody(d, tlv_id, fields, l.val, [l.d EXCEPT !.bytes = ClipBody(d.bytes, l.val)])

\* Decoder::tlv_param: decoder.check_param_type(tlv_id)? on a clone, then
\* u16::decode(&mut decoder)?
TlvHeader(d, tlv_id, fields, c) ==
    IF ~c.ok
    THEN Err(c.err, d, << NotCalled(tlv_id, d, c.err) >>)
    ELSE Once({ TlvLength(d, tlv_id, fields, l) : l \in { read_primitive(c.d, 2) } })

tlv_param(d, tlv_id, fields) ==
    Once({ TlvHeader(d, tlv_id, fields, c) : c \in { check_param_type(d, tlv_id) } })

\* `let field = decode_field?;` for each field, then the struct
FieldsNext(fields, i, acc, log, r) ==
    IF ~r.ok
    THEN Err(r.err, r.d, log \o r.log)
    ELSE DecodeFields(fields, i + 1, r.d, Append(acc, r.val), log \o r.log)

DecodeFields(fields, i, d, acc, log) ==
    IF i > Len(fields)
    THEN Ok(acc, d, log)
    ELSE Once({ FieldsNext(fields, i, acc, log, r) : r \in { DecodeField(fields[i], d) } })

\* Decoder::array with u8 items: the u16 count, then one byte per item; the
\* item that finds the cursor empty fails
ArrayItems(c) ==
    IF ~c.ok THEN c
    ELSE IF Len(c.d.bytes) < c.val
    THEN Err(InsufficientData(1, 0), [c.d EXCEPT !.bytes = << >>], << >>)
    ELSE Ok(Take(c.d.bytes, c.val), [c.d EXCEPT !.bytes = Drop(c.d.bytes, c.val)], << >>)

decode_array(d) == Once({ ArrayItems(c) : c \in { read_primitive(d, 2) } })

\* codegen.rs decode_field
DecodeField(f, d) ==
    CASE f.enc = "RawBits" -> read_bits(d, f.num_bits)
      [] f.enc = "ArrayOfT" -> decode_array(d)
      [] f.enc = "TvParameter" -> DecodeTvCont(f.cont, f.ty, f.tv_id, d)
      [] OTHER -> DecodeCont(f.cont, f.ty, d)

\* Ok(Self::Variant(..?))
Variant(i, r) == IF r.ok THEN Ok(<< i, r.val >>, r.d, r.log) ELSE r

\* the decode of a generated choice: peek, TV arms by id, then TLV arms by ID
ChoiceId(f) == IF f.enc = "TvParameter" THEN f.tv_id ELSE Definition(f.ty).id

ChoiceArm(def, i, d, p) ==
    IF ~p.ok THEN p
    ELSE IF i > Len(def.fields)
    THEN Err(InvalidType(as_u16(p.val)), d, << >>)
    ELSE IF as_u16(p.val) = ChoiceId(def.fields[i])
    THEN Once({ Variant(i, r) : r \in { DecodeField(def.fields[i], d) } })
    ELSE DecodeChoice(def, i + 1, d)

DecodeChoice(def, i, d) ==
    Once({ ChoiceArm(def, i, d, p) : p \in { peek_param_type(d) } })

\* LLRPValue::decode of a raw T
DecodeDef(def, d) ==
    CASE def.kind = "prim" -> read_primitive(d, def.size)
      [] def.kind = "param" -> tlv_param(d, def.id, def.fields)
      [] def.kind = "choice" -> DecodeChoice(def, 1, d)

DecodeTy(ty, d) == Once({ DecodeDef(def, d) : def \in { Definition(ty) } })

\* output.push(T::decode(decoder)?)
VecPush(ty, output, log, r) ==
    IF ~r.ok
    THEN Err(r.err, r.d, log \o r.log)
    ELSE VecLoop(ty, r.d, Append(output, r.val), log \o r.log)

\* impl LLRPValue for Vec<T>: the loop of decode
VecLoop(ty, d, output, log) ==
    IF \E m \in { get_message_type(d) } : m.ok /\ can_decode_type(ty, m.val)
    THEN Once({ VecPush(ty, output, log, r) : r \in { DecodeTy(ty, d) } })
    ELSE Ok(output, d, log)

\* Ok(Some(..?))
Some(r) == IF r.ok THEN Ok(<< r.val >>, r.d, r.log) ELSE r

\* A variant of OptionDecode that decodes T without peeking
OptionDecodeAlways(ty, d) == Once({ Some(r) : r \in { DecodeTy(ty, d) } })

\* impl LLRPValue for Option<T>: decode
OptionDecode(ty, d) ==
    IF \E p \in { peek_param_type(d) } : p.ok /\ can_decode_type(ty, as_u16(p.val))
    THEN Once({ Some(r) : r \in { DecodeTy(ty, d) } })
    ELSE Ok(<< >>, d, << >>)

\* LLRPValue::decode for a field type: T, Box<T>, Option<T>, Option<Box<T>>, Vec<T>
DecodeCont(cont, ty, d) ==
    CASE cont \in {"Raw", "Box"} -> DecodeTy(ty, d)
      [] cont \in {"Option", "OptionBox"} -> OptionDecode(ty, d)
      [] cont = "Vec" -> VecLoop(ty, d, << >>, << >>)

\* Self::decode(decoder) after decoder.check_param_type(tv_id as u16)?
WithLog(log, r) == [r EXCEPT !.log = log \o r.log]

AfterTvHeader(cont, ty, tv_id, d, c) ==
    IF ~c.ok THEN c
    ELSE Once({ WithLog(<< TvHeader(tv_id, d, c.d) >>, r) : r \in { DecodeCont(cont, ty, c.d) } })

\* LLRPValue::decode_tv: the default (check the header, then decode) and the
\* override of Option<T>
DecodeTvCont(cont, ty, tv_id, d) ==
    IF cont \in {"Option", "OptionBox"}
    THEN IF \E p \in { peek_param_type(d) } : p.ok /\ p.val.tv /\ p.val.id = tv_id
         THEN Once({ Some(r) : r \in { DecodeTvCont("Raw", ty, tv_id, d) } })
         ELSE Ok(<< >>, d, << >>)
    ELSE Once({ AfterTvHeader(cont, ty, tv_id, d, c) : c \in { check_param_type(d, tv_id) } })

-----------------------------------------------------------------------------
(* Encoder                                                                 *)

\* Encoder::new; log is the ghost list of tlv_param calls
NewEncoder(buffer) == [buffer |-> buffer, bits |-> 0, valid_bits |-> 0, log |-> << >>]

\* Encoder::write_bytes
write_bytes(e, bytes) == [e EXCEPT !.buffer = e.buffer \o bytes]

\* A variant of write_param_type that writes every type as two bytes
write_param_type_wide(e, ty) == write_bytes(e, to_be_bytes16(ty.id))

\* Encoder::write_param_type
write_param_type(e, ty) ==
    IF ty.tv
    THEN write_bytes(e, << BitOr(ty.id, 128) % U8Mod >>)
    ELSE write_bytes(e, to_be_bytes16(ty.id))

\* impl_llrp_value_primitive!: encode
write_primitive(e, v, size) ==
    IF size = 1 THEN write_bytes(e, << v % U8Mod >>) ELSE write_bytes(e, to_be_bytes16(v))

\* The flush loop of Encoder::write_bits
RECURSIVE WriteBitsFlush(_)
WriteBitsFlush(e) ==
    IF e.valid_bits >= 8
    THEN WriteBitsFlush([write_bytes(e, << e.bits % 256 >>)
                            EXCEPT !.bits = Shr(e.bits, 8),
                                   !.valid_bits = e.valid_bits - 8])
    ELSE e

\* Encoder::write_bits (value.to_bits() of a u8/u16 is the value itself)
write_bits(e, v, num_bits) ==
    WriteBitsFlush([e EXCEPT !.bits = BitOr(Shl32(e.bits, num_bits), v),
                             !.valid_bits = e.valid_bits + num_bits])

\* let param_len = (self.buffer.len() - offset + 2) as u16
ParamLen(buffer_len, offset) == (buffer_len - offset + 2) % U16Mod

\* self.buffer[offset..offset + 2].copy_from_slice(&param_len.to_be_bytes())
BackPatch(buffer, offset, param_len) ==
    [i \in 1..Len(buffer) |->
        IF i = offset + 1 THEN (param_len \div 256) % 256
        ELSE IF i = offset + 2 THEN param_len % 256
        ELSE buffer[i]]

RECURSIVE EncodeTy(_, _, _)
RECURSIVE EncodeCont(_, _, _, _)
RECURSIVE EncodeTvCont(_, _, _, _, _)
RECURSIVE EncodeField(_, _, _)
RECURSIVE EncodeFields(_, _, _, _)
RECURSIVE EncodeVec(_, _, _, _)
RECURSIVE encode_tlv_param(_, _, _, _)

\* Encoder::tlv_param, last part: the length is computed and written into
\* the two bytes reserved at offset
TlvPatch(tlv_id, start, offset, b, param_len) ==
    [b EXCEPT !.buffer = BackPatch(b.buffer, offset, param_len),
              !.log = b.log \o << [id |-> tlv_id, start |-> start,
                                   len |-> param_len, end |-> Len(b.buffer)] >>]

TlvClose(tlv_id, start, offset, b) ==
    TlvPatch(tlv_id, start, offset, b, ParamLen(Len(b.buffer), offset))

\* Encoder::tlv_param with the closure of define_parameter: the type, two
\* zero bytes at offset, the fields
encode_tlv_param(e, tlv_id, fields, v) ==
    Once({ TlvClose(tlv_id, Len(e.buffer), Len(e.buffer) + 2, b) :
           b \in { EncodeFields(fields, 1,
                                write_bytes(write_param_type(e, Tlv(tlv_id)), << 0, 0 >>),
                                v) } })

\* `let field = &self.field; encode_field;` for each field
EncodeFields(fields, i, e, v) ==
    IF i > Len(fields) THEN e
    ELSE EncodeFields(fields, i + 1, EncodeField(fields[i], e, v[i]), v)

\* Encoder::array with u8 items: (items.len() as u16), then the items
encode_array(e, items) ==
    write_bytes(write_bytes(e, to_be_bytes16(Len(items) % U16Mod)),
                [i \in 1..Len(items) |-> items[i] % U8Mod])

\* codegen.rs encode_field
EncodeField(f, e, v) ==
    CASE f.enc = "RawBits" -> write_bits(e, v, f.num_bits)
      [] f.enc = "ArrayOfT" -> encode_array(e, v)
      [] f.enc = "TvParameter" -> EncodeTvCont(f.cont, f.ty, f.tv_id, e, v)
      [] OTHER -> EncodeCont(f.cont, f.ty, e, v)

\* LLRPValue::encode of a raw T (a choice delegates to its active variant)
EncodeDef(def, e, v) ==
    CASE def.kind = "prim" -> write_primitive(e, v, def.size)
      [] def.kind = "param" -> encode_tlv_param(e, def.id, def.fields, v)
      [] def.kind = "choice" -> EncodeField(def.fields[v[1]], e, v[2])

EncodeTy(ty, e, v) == Once({ EncodeDef(def, e, v) : def \in { Definition(ty) } })

\* impl LLRPValue for Vec<T>: encode
EncodeVec(ty, e, v, i) ==
    IF i > Len(v) THEN e ELSE EncodeVec(ty, EncodeTy(ty, e, v[i]), v, i + 1)

\* LLRPValue::encode for T, Box<T>, Option<T>, Option<Box<T>>, Vec<T>
EncodeCont(cont, ty, e, v) ==
    CASE cont \in {"Raw", "Box"} -> EncodeTy(ty, e, v)
      [] cont \in {"Option", "OptionBox"} -> IF v = << >> THEN e ELSE EncodeTy(ty, e, v[1])
      [] cont = "Vec" -> EncodeVec(ty, e, v, 1)

\* LLRPValue::encode_tv: the default (header, then encode) and the override
\* of Option<T>
EncodeTvCont(cont, ty, tv_id, e, v) ==
    IF cont \in {"Option", "OptionBox"}
    THEN IF v = << >> THEN e ELSE EncodeTvCont("Raw", ty, tv_id, e, v[1])
    ELSE EncodeCont(cont, ty, write_param_type(e, Tv(tv_id)), v)

-----------------------------------------------------------------------------
(* Inputs: values of the schema's types and wire buffers                   *)

MaxParams == 3
MaxChunks == 2

\* integer field values: 130 is also the TV header byte of Tick and the low
\* byte of Mark's type number
ByteVals == {0, 130}

RECURSIVE ValsTy(_, _)
RECURSIVE FieldVals(_, _)
RECURSIVE FieldsVals(_, _, _)
RECURSIVE VecVals(_, _)

\* the values of type ty that hold at most w parameters (TLV or TV)
DefVals(def, w) ==
    CASE def.kind = "prim" -> ByteVals
      [] def.kind = "param" ->
           IF w < 1 THEN {} ELSE FieldsVals(def.fields, 1, w - 1)
      [] def.kind = "choice" ->
           UNION { { << i, v >> : v \in FieldVals(def.fields[i], w) } :
                   i \in 1..Len(def.fields) }

ValsTy(ty, w) == Once({ DefVals(def, w) : def \in { Definition(ty) } })

VecVals(ty, w) ==
    {<< >>} \cup
    UNION { { << v >> \o rest : v \in ValsTy(ty, k), rest \in VecVals(ty, w - k) } :
            k \in 1..w }

\* array lengths: with BlobFit items a Blob is 65535 bytes long, the longest a
\* 16-bit length field can state; with one more it is 65536 bytes long
BlobFit == U16Mod - 7
BlobLens == {0, 2, BlobFit, BlobFit + 1}

FieldVals(f, w) ==
    CASE f.enc = "ArrayOfT" -> { [i \in 1..n |-> 0] : n \in BlobLens }
      [] f.cont = "Vec" -> VecVals(f.ty, w)
      [] f.cont \in {"Option", "OptionBox"} ->
           {<< >>} \cup { << v >> : v \in FieldVals([f EXCEPT !.cont = "Raw"], w) }
      [] f.enc = "TvParameter" -> IF w < 1 THEN {} ELSE ValsTy(f.ty, w - 1)
      [] OTHER -> ValsTy(f.ty, w)

FieldsVals(fields, i, w) ==
    IF i > Len(fields) THEN {<< >>}
    ELSE UNION { { << v >> \o rest : v \in FieldVals(fields[i], k),
                                     rest \in FieldsVals(fields, i + 1, w - k) } :
                 k \in 0..w }

\* the parameter types whose fields are whole-byte integers, TV scalars and
\* Option/Box/Vec containers
RoundTripTypes == {"Node", "Leaf", "Mark", "Blob"}
ParamTypes == {"Node", "Leaf", "Mark", "Blob", "Nibble", "Packed"}

Pieces ==
    { << 0, 130, 0, 4 >>,          \* Mark
      << 4, 130, 0, 4 >>,          \* Mark, a reserved header bit set
      << 0, 130, 0, 5, 9 >>,       \* Mark with one byte its body does not read
      << 0, 130, 0, 3 >>,          \* Mark header, length below 4
      << 0, 129, 0, 5, 7 >>,       \* Leaf
      << 0, 130, 0, 4, 0, 130, 0, 4 >>, \* two Marks
      << 130, 7 >>,                \* TV Tick
      << 129, 7 >>,                \* TV Serial
      << 0, 131, 0, 5, 165 >>,     \* Nibble
      << 0, 132, 0, 6, 165, 60 >>, \* Packed
      << 0, 2, 0, 4 >>,            \* TLV parameter whose type number is Tick's TV id
      << 0, 2, 7 >>,               \* the same type number, cut after three bytes
      << 0 >> }

RECURSIVE Chunks(_)
Chunks(n) ==
    IF n = 0 THEN {<< >>}
    ELSE Chunks(n - 1) \cup { p \o s : p \in Pieces, s \in Chunks(n - 1) }

\* a Node header (n = 0) around s whose length field is off by delta - 1
NodeWrap(s, delta) == << 0, 128, 0, 4 + Len(s) + delta, 0 >> \o s

WireBuffers ==
    Chunks(MaxChunks) \cup
    { NodeWrap(s, delta) : s \in Chunks(MaxChunks - 1), delta \in 0..2 }

-----------------------------------------------------------------------------
(* The state machine: a value is encoded and decoded back, or a wire       *)
(* buffer is decoded field by field (the body of a generated message) and  *)
(* a decoded parameter is encoded again.                                   *)

NoValue == [ty |-> "none", v |-> << >>]
NoLast == [op |-> "none", f |-> U8Field, pre |-> NoDecoder, res |-> Ok(<< >>, NoDecoder, << >>)]

InitValue ==
    /\ pc = "value"
    /\ \E ty \in RoundTripTypes : \E v \in ValsTy(ty, MaxParams) : value = [ty |-> ty, v |-> v]
    /\ data = << >>
    /\ decoder = NoDecoder
    /\ encoder = NewEncoder(<< >>)
    /\ last = NoLast

InitWire ==
    /\ pc = "wire"
    /\ data \in WireBuffers
    /\ value = NoValue
    /\ decoder = NewDecoder(data)
    /\ encoder = NewEncoder(<< >>)
    /\ last = NoLast

Init == InitValue \/ InitWire

\* LLRPValue::encode of the value into a fresh buffer
Encode ==
    /\ pc = "value"
    /\ encoder' = EncodeTy(value.ty, NewEncoder(<< >>), value.v)
    /\ pc' = "encoded"
    /\ UNCHANGED <<data, decoder, last, value>>

\* LLRPValue::decode of the encoded bytes
DecodeBack ==
    /\ pc = "encoded"
    /\ \E f \in { TlvField("Raw", value.ty) } :
       \E r \in { DecodeField(f, NewDecoder(encoder.buffer)) } :
           /\ last' = [op |-> "decode_back", f |-> f, pre |-> NoDecoder, res |-> r]
           /\ decoder' = r.d
    /\ pc' = "decoded"
    /\ UNCHANGED <<data, encoder, value>>

\* one `let field = decoder.read..()?` of a message body on the wire buffer
ReadStep(op, f) ==
    /\ \E r \in { DecodeField(f, decoder) } :
           /\ last' = [op |-> op, f |-> f, pre |-> decoder, res |-> r]
           /\ decoder' = r.d
           /\ pc' = IF r.ok THEN "wire" ELSE "failed"
    /\ UNCHANGED <<data, encoder, value>>

ReadParam ==
    /\ pc = "wire"
    /\ \E ty \in ParamTypes : ReadStep("param", TlvField("Raw", ty))
ReadOption ==
    /\ pc = "wire"
    /\ \E ty \in {"Leaf", "Item"} : ReadStep("option", TlvField("Option", ty))
ReadOptionTv ==
    /\ pc = "wire"
    /\ \E id \in {TickTvId} : ReadStep("option_tv", TvField("Option", "u8", id))
ReadVec ==
    /\ pc = "wire"
    /\ \E f \in { TlvField("Vec", "Mark"), TlvField("Vec", "Item"),
                  TvField("Vec", "u8", TickTvId) } : ReadStep("vec", f)
ReadTv ==
    /\ pc = "wire"
    /\ \E id \in {TickTvId} : ReadStep("tv", TvField("Raw", "u8", id))
ReadBits ==
    /\ pc = "wire"
    /\ \E n \in {4} : ReadStep("bits", BitsField(n))

\* Decoder::peek_param_type on the current decoder
Peek ==
    /\ pc = "wire"
    /\ \E r \in { peek_param_type(decoder) } :
           /\ last' = [op |-> "peek", f |-> U8Field, pre |-> decoder, res |-> r]
           /\ decoder' = r.d
    /\ UNCHANGED <<data, encoder, value, pc>>

\* a parameter decoded from the start of the wire buffer is encoded again
ReEncode ==
    /\ pc = "wire"
    /\ last.op = "param"
    /\ last.pre = NewDecoder(data)
    /\ last.f.ty \in RoundTripTypes
    /\ last.res.ok
    /\ value' = [ty |-> last.f.ty, v |-> last.res.val]
    /\ encoder' = EncodeTy(last.f.ty, NewEncoder(<< >>), last.res.val)
    /\ pc' = "reencoded"
    /\ UNCHANGED <<data, decoder, last>>

Next ==
    \/ Encode \/ DecodeBack
    \/ ReadParam \/ ReadOption \/ ReadOptionTv \/ ReadVec \/ ReadTv \/ ReadBits
    \/ Peek \/ ReEncode

Spec == Init /\ [][Next]_vars

-----------------------------------------------------------------------------
(* Properties of Decoder::tlv_param, read off the ghost log of the last     *)
(* operation; the header fields are taken from the raw bytes.               *)

LogEntries == { last.res.log[i] : i \in 1..Len(last.res.log) }
Scopes == { e \in LogEntries : e.kind = "tlv" }

\* the 10-bit type number and the 16-bit length of a TLV header
TypeField(b) == (b[1] * 256 + b[2]) % 1024
LengthField(b) == b[3] * 256 + b[4]
HasTlvHeader(b, id) == Len(b) >= 4 /\ b[1] < 128 /\ TypeField(b) = id
BadLength(b) == LengthField(b) < 4 \/ LengthField(b) > Len(b)

\* the last operation was tlv_param on a buffer that starts with its header
ParamOnHeader ==
    /\ last.op = "param"
    /\ HasTlvHeader(last.pre.bytes, Definition(last.f.ty).id)

\* C3: when tlv_param succeeds on a buffer that starts with a TLV header of
\* its type and of length L, the body ran on exactly the bytes 4..L-1 of the
\* buffer and the outer cursor has advanced by exactly L bytes.
C3_ClippedAndAdvanced ==
    /\ \A e \in Scopes :
         (e.ok /\ HasTlvHeader(e.outer.bytes, e.id)) =>
            /\ e.called
            /\ Len(e.sub_in.bytes) = LengthField(e.outer.bytes) - 4
            /\ \A i \in 1..Len(e.sub_in.bytes) : e.sub_in.bytes[i] = e.outer.bytes[4 + i]
            /\ Len(e.after.bytes) = Len(e.outer.bytes) - LengthField(e.outer.bytes)
            /\ \A i \in 1..Len(e.after.bytes) :
                 e.after.bytes[i] = e.outer.bytes[LengthField(e.outer.bytes) + i]
    /\ (ParamOnHeader /\ last.res.ok) =>
            /\ Len(decoder.bytes) = Len(last.pre.bytes) - LengthField(last.pre.bytes)
            /\ \A i \in 1..Len(decoder.bytes) :
                 decoder.bytes[i] = last.pre.bytes[LengthField(last.pre.bytes) + i]

\* a parameter with a non-empty body was decoded and bytes follow it
C3_Witness ==
    /\ ParamOnHeader
    /\ last.res.ok
    /\ LengthField(last.pre.bytes) > 4
    /\ Len(last.pre.bytes) > LengthField(last.pre.bytes)
    /\ decoder.bytes # << >>

\* C4: for every header whose length field is below 4 or above the bytes
\* remaining in the enclosing scope, tlv_param returns
\* TlvParameterLengthInvalid and the body is not invoked.
C4_LengthRejected ==
    /\ \A e \in Scopes :
         (HasTlvHeader(e.outer.bytes, e.id) /\ BadLength(e.outer.bytes)) =>
            /\ ~e.called
            /\ ~e.ok
            /\ e.err = TlvParameterLengthInvalid(LengthField(e.outer.bytes))
    /\ (ParamOnHeader /\ BadLength(last.pre.bytes)) =>
            /\ ~last.res.ok
            /\ last.res.err = TlvParameterLengthInvalid(LengthField(last.pre.bytes))
            /\ Len(last.res.log) = 1

\* a header whose length exceeds the bytes that remain was rejected
C4_Witness ==
    /\ ParamOnHeader
    /\ LengthField(last.pre.bytes) > Len(last.pre.bytes)
    /\ last.res.err.kind = "TlvParameterLengthInvalid"

\* C5: whenever the body returns successfully with n > 0 unread bytes in the
\* parameter's scope, tlv_param returns TrailingBytes(n); after every
\* successful tlv_param the sub-cursor was empty.
C5_TrailingBytesStrict ==
    /\ \A e \in Scopes :
         /\ (e.called /\ e.body_ok /\ Len(e.sub_out.bytes) > 0) =>
               (~e.ok /\ e.err = TrailingBytes(Len(e.sub_out.bytes)))
         /\ e.ok => (e.called /\ e.sub_out.bytes = << >>)
    /\ (last.op = "param" /\ Len(last.res.log) > 0) =>
         /\ last.res.ok = last.res.log[Len(last.res.log)].ok
         /\ last.res.err = last.res.log[Len(last.res.log)].err

\* a body that returned Ok left unread bytes and the call failed
C5_Witness ==
    /\ last.op = "param"
    /\ last.res.err.kind = "TrailingBytes"
    /\ \E e \in Scopes : e.called /\ e.body_ok /\ Len(e.sub_out.bytes) = last.res.err.a

\* C8: tlv_param returns TrailingBits whenever its body returns with
\* valid_bits # 0, so after every successfully decoded parameter the bit
\* accumulator holds zero valid bits.
C8_TrailingBitsRejected ==
    \A e \in Scopes :
        /\ (e.called /\ e.body_ok /\ e.sub_out.bytes = << >> /\ e.sub_out.valid_bits # 0) =>
              (~e.ok /\ e.err = TrailingBits(e.sub_out.valid_bits))
        /\ e.ok => e.sub_out.valid_bits = 0

-----------------------------------------------------------------------------
(* Properties of the Option and Vec containers                              *)

\* the type number of the header a buffer starts with, TV or TLV
HeaderType(b) == IF b[1] >= 128 THEN b[1] - 128 ELSE TypeField(b)

\* the type numbers a schema type accepts
AcceptedIds(ty) ==
    IF Definition(ty).kind = "choice"
    THEN { ChoiceId(Definition(ty).fields[i]) : i \in 1..Len(Definition(ty).fields) }
    ELSE { Definition(ty).id }

\* the last operation decoded an Option<T> field at a header T does not accept
OptionOnOtherHeader ==
    /\ Len(last.pre.bytes) >= 2
    /\ \/ /\ last.op = "option"
          /\ HeaderType(last.pre.bytes) \notin AcceptedIds(last.f.ty)
       \/ /\ last.op = "option_tv"
          /\ ~(last.pre.bytes[1] >= 128 /\ HeaderType(last.pre.bytes) = last.f.tv_id)

\* C9: decoding an Option<T> field (TLV via decode, TV via decode_tv) at a
\* header whose type number T does not accept returns None and leaves byte
\* cursor and bit accumulator as they were, so a field that follows decodes
\* as it would without the optional field; peek_param_type never changes the
\* decoder.
C9_OptionSoak ==
    /\ OptionOnOtherHeader =>
         /\ last.res.ok
         /\ last.res.val = << >>
         /\ last.res.log = << >>
         /\ decoder = last.pre
         /\ \A ty \in {"Mark", "Leaf"} :
              DecodeTy(ty, decoder) = DecodeTy(ty, last.pre)
    /\ last.op = "peek" => decoder = last.pre

\* an Option<Leaf> field met the header of another parameter after bits had
\* been buffered
C9_Witness ==
    /\ OptionOnOtherHeader
    /\ last.op = "option"
    /\ last.pre.valid_bits > 0
    /\ HasTlvHeader(last.pre.bytes, MarkId)

\* The parameters a Vec<T> field is to consume, read off the raw bytes: a
\* parameter is a TV header byte with its one-byte scalar or a TLV header with
\* the bytes its length field covers; T accepts it if T (or a variant of T)
\* has that type number in that framing.
TvIds(f) ==
    IF f.enc = "TvParameter" THEN { f.tv_id }
    ELSE IF Definition(f.ty).kind = "choice"
    THEN { Definition(f.ty).fields[i].tv_id :
           i \in { j \in 1..Len(Definition(f.ty).fields) :
                   Definition(f.ty).fields[j].enc = "TvParameter" } }
    ELSE { }

TlvIds(f) ==
    IF f.enc = "TvParameter" THEN { }
    ELSE IF Definition(f.ty).kind = "choice"
    THEN { Definition(Definition(f.ty).fields[i].ty).id :
           i \in { j \in 1..Len(Definition(f.ty).fields) :
                   Definition(f.ty).fields[j].enc = "TlvParameter" } }
    ELSE { Definition(f.ty).id }

Accepts(f, b) ==
    /\ Len(b) >= 2
    /\ IF b[1] >= 128 THEN HeaderType(b) \in TvIds(f) ELSE HeaderType(b) \in TlvIds(f)

\* the bytes of the parameter b starts with (0 if its framing is broken)
ParamSize(b) ==
    IF b[1] >= 128 THEN 2
    ELSE IF Len(b) < 4 \/ BadLength(b) THEN 0
    ELSE LengthField(b)

\* the element a single parameter decodes to
Element(f, b) ==
    IF b[1] >= 128
    THEN DecodeTvCont("Raw", f.ty, HeaderType(b), NewDecoder(b))
    ELSE DecodeTy(f.ty, NewDecoder(b))

ElementOf(f, b) ==
    IF f.enc = "TvParameter" THEN Element(f, b)
    ELSE IF Definition(f.ty).kind = "choice"
    THEN DecodeTy(f.ty, NewDecoder(b))
    ELSE Element(f, b)

\* the maximal run of accepted parameters at the start of b: its elements,
\* the bytes after it, and whether one of its parameters is malformed
RECURSIVE Run(_, _)
RunNext(b, size, el, run) ==
    IF run.bad \/ ~el.ok \/ el.d.bytes # << >>
    THEN [vals |-> << >>, rest |-> b, bad |-> TRUE]
    ELSE [vals |-> << el.val >> \o run.vals, rest |-> run.rest, bad |-> FALSE]

Run(f, b) ==
    IF ~Accepts(f, b) THEN [vals |-> << >>, rest |-> b, bad |-> FALSE]
    ELSE IF ParamSize(b) = 0 \/ ParamSize(b) > Len(b)
    THEN [vals |-> << >>, rest |-> b, bad |-> TRUE]
    ELSE Once({ RunNext(b, size, el, run) :
                size \in { ParamSize(b) },
                el \in { ElementOf(f, Take(b, ParamSize(b))) },
                run \in { Run(f, Drop(b, ParamSize(b))) } })

\* C10: decoding a Vec<T> field, for TLV- and TV-encoded element types
\* alike, consumes exactly the maximal run of adjacent parameters whose header
\* T accepts, returns the elements in wire order and stops without error at
\* the first header T does not accept or at the end of the payload, leaving
\* the cursor there.
C10_VecMaximalRun ==
    (last.op = "vec" /\ ~Run(last.f, last.pre.bytes).bad) =>
        /\ last.res.ok
        /\ last.res.val = Run(last.f, last.pre.bytes).vals
        /\ decoder.bytes = Run(last.f, last.pre.bytes).rest

\* the same for element types that are TLV parameters or choices, on buffers
\* in which no TLV header carries a TV type number
VecMaximalRunTlvElements ==
    (/\ last.op = "vec"
     /\ last.f.enc = "TlvParameter"
     /\ \A e \in LogEntries : e.kind = "tv" => e.outer.bytes[1] >= 128
     /\ ~Run(last.f, last.pre.bytes).bad
     /\ ~(Len(Run(last.f, last.pre.bytes).rest) >= 2
            /\ Run(last.f, last.pre.bytes).rest[1] < 128
            /\ HeaderType(Run(last.f, last.pre.bytes).rest) \in TvIds(last.f))) =>
        /\ last.res.ok
        /\ last.res.val = Run(last.f, last.pre.bytes).vals
        /\ decoder.bytes = Run(last.f, last.pre.bytes).rest

\* the last operation decoded an Option<T> or Vec<T> field and returned None
\* or the end of the run
ContainerStopped ==
    /\ last.op \in {"option", "option_tv", "vec"}
    /\ last.res.ok
    /\ last.op = "vec" \/ last.res.val = << >>

\* the container's position holds a TLV header of a type T accepts whose
\* length field is below 4 or beyond the bytes left, or that is cut short
MalformedHere ==
    /\ last.op \in {"option", "option_tv", "vec"}
    /\ Len(last.pre.bytes) >= 2
    /\ last.pre.bytes[1] < 128
    /\ HeaderType(last.pre.bytes) \in TlvIds(last.f)
    /\ Len(last.pre.bytes) < 4 \/ BadLength(last.pre.bytes)

\* C11: Option<T> and Vec<T> absorb only header-type mismatches: None or the
\* end of a run arises only at an empty payload or at a peeked header whose
\* type T does not accept; a buffer that ends inside a header or a field, or
\* a malformed TLV length at the container's position, is returned as an
\* error.
C11_OnlyMismatchAbsorbed ==
    /\ ContainerStopped =>
         \/ decoder.bytes = << >>
         \/ Len(decoder.bytes) >= 2 /\ ~Accepts(last.f, decoder.bytes)
    /\ MalformedHere =>
         /\ ~last.res.ok
         /\ last.res.err.kind \in {"InsufficientData", "TlvParameterLengthInvalid"}

\* what the containers do absorb besides a mismatch: the InsufficientData of
\* peek_param_type when a single byte is left (TLV and choice element types)
OnlyMismatchOrShortPeekAbsorbed ==
    /\ (ContainerStopped /\ last.f.enc = "TlvParameter") =>
         \/ Len(decoder.bytes) <= 1
         \/ ~Accepts(last.f, decoder.bytes)
    /\ MalformedHere =>
         /\ ~last.res.ok
         /\ last.res.err.kind \in {"InsufficientData", "TlvParameterLengthInvalid"}

\* the TV headers accepted by decode_tv during the last operation
TvScopes == { e \in LogEntries : e.kind = "tv" }

\* C12: read_tv(tv_id) for a non-optional T, also when reached through a
\* choice's TV arm, succeeds only if the next header is the one-byte TV header
\* 0x80 | tv_id and consumes exactly that byte before decoding T; for every
\* other header, a TLV header with type number tv_id included, it returns
\* InvalidType and consumes nothing.
C12_ReadTvOnlyTvHeader ==
    /\ \A e \in TvScopes :
         /\ e.outer.bytes[1] = 128 + e.id
         /\ e.after.bytes = Drop(e.outer.bytes, 1)
    /\ (/\ last.op = "tv"
        /\ Len(last.pre.bytes) >= 2
        /\ last.pre.bytes[1] # 128 + last.f.tv_id) =>
         /\ ~last.res.ok
         /\ last.res.err.kind = "InvalidType"
         /\ decoder = last.pre

\* what check_param_type does accept: the TV header byte, or two bytes whose
\* low 10 bits are tv_id under a clear top bit, which it consumes both
ReadTvEitherFraming ==
    /\ \A e \in TvScopes :
         \/ /\ e.outer.bytes[1] = 128 + e.id
            /\ e.after.bytes = Drop(e.outer.bytes, 1)
         \/ /\ e.outer.bytes[1] < 128
            /\ TypeField(e.outer.bytes) = e.id
            /\ e.after.bytes = Drop(e.outer.bytes, 2)
    /\ (/\ last.op = "tv"
        /\ Len(last.pre.bytes) >= 2
        /\ last.pre.bytes[1] # 128 + last.f.tv_id
        /\ ~(last.pre.bytes[1] < 128 /\ TypeField(last.pre.bytes) = last.f.tv_id)) =>
         /\ ~last.res.ok
         /\ last.res.err.kind = "InvalidType"
         /\ decoder = last.pre

\* C24: Decoder::tlv_param is atomic on failure: if it returns any error
\* (InvalidType, InsufficientData, TlvParameterLengthInvalid, an error of the
\* body, TrailingBytes), the outer decoder's byte cursor and bit accumulator
\* are exactly what they were before the call. This holds for the call made
\* by the last operation and for every nested call it made.
C24_TlvParamAtomic ==
    /\ \A e \in Scopes : ~e.ok => e.after = e.outer
    /\ (last.op = "param" /\ ~last.res.ok) => decoder = last.pre

\* tlv_param failed after its body had run, on a decoder that held bits in
\* its accumulator
C24_Witness ==
    /\ last.op = "param"
    /\ ~last.res.ok
    /\ last.pre.valid_bits > 0
    /\ decoder = last.pre
    /\ \E e \in Scopes : ~e.ok /\ e.called

-----------------------------------------------------------------------------
(* Properties of the encoder and of the round trip                          *)

\* the bytes of the wire buffer the last operation consumed
Consumed == Take(last.pre.bytes, Len(last.pre.bytes) - Len(last.res.d.bytes))

AllFit == \A i \in 1..Len(encoder.log) : encoder.log[i].end - encoder.log[i].start < U16Mod

\* in the decoded buffer every TLV header has its six reserved bits zero and
\* every TV-encoded field has a one-byte TV header
Canonical ==
    \A e \in LogEntries :
        IF e.kind = "tlv" THEN e.outer.bytes[1] < 4 ELSE e.outer.bytes[1] >= 128

C2_LengthIsExtent ==
    \A i \in 1..Len(encoder.log) :
        /\ encoder.log[i].len = encoder.log[i].end - encoder.log[i].start
        /\ LengthField(SubSeq(encoder.buffer, encoder.log[i].start + 1,
                              encoder.log[i].start + 4))
             = encoder.log[i].end - encoder.log[i].start

\* the same for the parameters that are at most 65535 bytes long; a longer
\* one is given its length modulo 65536
LengthIsExtentModU16 ==
    \A i \in 1..Len(encoder.log) :
        /\ TypeField(SubSeq(encoder.buffer, encoder.log[i].start + 1,
                            encoder.log[i].start + 4)) = encoder.log[i].id
        /\ LengthField(SubSeq(encoder.buffer, encoder.log[i].start + 1,
                              encoder.log[i].start + 4))
             = (encoder.log[i].end - encoder.log[i].start) % U16Mod

-----------------------------------------------------------------------------
(* Decoder::read_bits on its own: a byte stream is read as a sequence of    *)
(* bit fields; value.v counts the bits read so far (a ghost).               *)

MaxBitBytes == 3

\* all zeros, all ones and two bytes without symmetry
BitByteVals == {0, 255, 165, 60}

RECURSIVE SeqsUpTo(_, _)
SeqsUpTo(S, n) ==
    IF n = 0 THEN {<< >>}
    ELSE SeqsUpTo(S, n - 1) \cup { << x >> \o t : x \in S, t \in SeqsUpTo(S, n - 1) }

BitWidths == 1..15

InitReadBits ==
    /\ pc = "bits"
    /\ data \in SeqsUpTo(BitByteVals, MaxBitBytes)
    /\ decoder = NewDecoder(data)
    /\ encoder = NewEncoder(<< >>)
    /\ last = NoLast
    /\ value = [ty |-> "position", v |-> 0]

\* decoder.read_bits::<u16>(n)
ReadBitField ==
    /\ pc = "bits"
    /\ \E n \in BitWidths :
       \E r \in { read_bits(decoder, n) } :
           /\ last' = [op |-> "bits", f |-> BitsField(n), pre |-> decoder, res |-> r]
           /\ decoder' = r.d
           /\ pc' = IF r.ok THEN "bits" ELSE "failed"
           /\ value' = [value EXCEPT !.v = IF r.ok THEN @ + n ELSE @]
    /\ UNCHANGED <<data, encoder>>

NextReadBits == ReadBitField

SpecReadBits == InitReadBits /\ [][NextReadBits]_vars

\* bit k (from 0) of the byte stream, most significant bit of a byte first
BitAt(bs, k) == (bs[(k \div 8) + 1] \div Pow2(7 - (k % 8))) % 2

\* the number n bits of the stream from bit k on make, first bit most significant
RECURSIVE BitsFrom(_, _, _)
BitsFrom(bs, k, n) ==
    IF n = 0 THEN 0 ELSE 2 * BitsFrom(bs, k, n - 1) + BitAt(bs, k + n - 1)

\* the bytes that hold the first k bits
BytesFor(k) == (k + 7) \div 8

\* C7: read_bits(n), n in 1..15, returns the next n bits of the byte stream,
\* most significant bit first, from the bit where the previous read_bits
\* stopped; it consumes a byte only while fewer than n bits are buffered; after
\* it the accumulator holds exactly the unread low bits of the last consumed
\* byte.
C7_ReadBitsMsbFirst ==
    (last.op = "bits" /\ last.res.ok) =>
        /\ last.res.val = BitsFrom(data, value.v - last.f.num_bits, last.f.num_bits)
        /\ Len(decoder.bytes) = Len(data) - BytesFor(value.v)
        /\ Len(last.pre.bytes) - Len(decoder.bytes) =
             BytesFor(value.v) - BytesFor(value.v - last.f.num_bits)
        /\ decoder.valid_bits = 8 * BytesFor(value.v) - value.v
        /\ decoder.bits = BitsFrom(data, value.v, decoder.valid_bits)

\* a field that starts inside one byte and ends inside the next was read
C7_Witness ==
    /\ last.op = "bits"
    /\ last.res.ok
    /\ last.pre.valid_bits > 0
    /\ last.f.num_bits > last.pre.valid_bits
    /\ decoder.valid_bits > 0
    /\ last.res.val \notin {0, Pow2(last.f.num_bits) - 1}

-----------------------------------------------------------------------------
(* Encoder::write_bits against Decoder::read_bits: bit fields are written,  *)
(* and once they fill whole bytes the bytes are read back with the same     *)
(* widths; value.v is the list of << width, value >> written.               *)

MaxBitFields == 3

WriteWidths == {1, 3, 4, 8, 12, 15}

\* values of an n-bit field: 0, 1, the top bit, all ones
WriteVals(n) == {0, 1, Pow2(n - 1), Pow2(n) - 1}

RECURSIVE SumWidths(_)
SumWidths(fs) == IF fs = << >> THEN 0 ELSE fs[1][1] + SumWidths(Tail(fs))

InitWriteBits ==
    /\ pc = "write"
    /\ data = << >>
    /\ decoder = NoDecoder
    /\ encoder = NewEncoder(<< >>)
    /\ last = NoLast
    /\ value = [ty |-> "fields", v |-> << >>]

\* encoder.write_bits(&v, n)
WriteBitField ==
    /\ pc = "write"
    /\ Len(value.v) < MaxBitFields
    /\ \E n \in WriteWidths : \E v \in WriteVals(n) :
           /\ encoder' = write_bits(encoder, v, n)
           /\ value' = [value EXCEPT !.v = Append(@, << n, v >>)]
    /\ UNCHANGED <<data, decoder, last, pc>>

\* decoder.read_bits::<u16>(n) for each width written, in order
RECURSIVE ReadBitFields(_, _, _, _)
ReadBitFieldsNext(fs, i, acc, r) ==
    IF ~r.ok THEN r ELSE ReadBitFields(fs, i + 1, r.d, Append(acc, r.val))

ReadBitFields(fs, i, d, acc) ==
    IF i > Len(fs) THEN Ok(acc, d, << >>)
    ELSE Once({ ReadBitFieldsNext(fs, i, acc, r) : r \in { read_bits(d, fs[i][1]) } })

ReadBitsBack ==
    /\ pc = "write"
    /\ value.v # << >>
    /\ SumWidths(value.v) % 8 = 0
    /\ \E r \in { ReadBitFields(value.v, 1, NewDecoder(encoder.buffer), << >>) } :
           /\ last' = [op |-> "read_back", f |-> U8Field,
                       pre |-> NewDecoder(encoder.buffer), res |-> r]
           /\ decoder' = r.d
    /\ pc' = "read"
    /\ UNCHANGED <<data, encoder, value>>

NextWriteBits == WriteBitField \/ ReadBitsBack

SpecWriteBits == InitWriteBits /\ [][NextWriteBits]_vars

\* C6: for every sequence of widths (each in 1..15) whose sum is a multiple
\* of 8 and every sequence of values v_i < 2^n_i, writing the values with
\* write_bits produces sum/8 bytes from which read_bits with the same widths
\* returns the values in order.
C6_WriteBitsInverse ==
    pc = "read" =>
        /\ Len(encoder.buffer) * 8 = SumWidths(value.v)
        /\ last.res.ok
        /\ last.res.val = [i \in 1..Len(value.v) |-> value.v[i][2]]

\* the same for fields none of which crosses a byte boundary or, being 8 bits
\* wide, starts inside a byte
RECURSIVE WithinBytes(_, _)
WithinBytes(fs, k) ==
    \/ fs = << >>
    \/ /\ (k % 8) + fs[1][1] <= 8
       /\ WithinBytes(Tail(fs), k + fs[1][1])

WriteBitsInverseWithinBytes ==
    (pc = "read" /\ WithinBytes(value.v, 0)) =>
        /\ Len(encoder.buffer) * 8 = SumWidths(value.v)
        /\ last.res.ok
        /\ last.res.val = [i \in 1..Len(value.v) |-> value.v[i][2]]

-----------------------------------------------------------------------------
(* Enumerations: the generated LLRPEnumeration of a value table, the Bits   *)
(* conversions it goes through and the Decoder's read_enum operations.      *)
(* A variant is named by its value; value.v holds the table, the variant    *)
(* last converted and the number last handed to from_value.                 *)

InvalidVariant(n) == [kind |-> "InvalidVariant", a |-> n, b |-> 0]

\* the abort of Result::unwrap on an Err
Panicked(n) == [kind |-> "panic", a |-> n, b |-> 0]

\* define_enum: from_value (value.into() matched against the table)
from_value(table, x) ==
    IF x \in table THEN Ok(x, NoDecoder, << >>) ELSE Err(InvalidVariant(x), NoDecoder, << >>)

\* Bits::from_bits for bool, u8 and u16, followed by Into<u32> (false, true
\* are 0, 1)
from_bits(U, bits) ==
    CASE U = "bool" -> bits % 2
      [] U = "u8" -> bits % U8Mod
      [] OTHER -> bits % U16Mod

\* define_enum: to_value::<U> (the variant's value as u32, through from_bits)
to_value(U, e) == from_bits(U, e)

\* A variant of EnumFromBits that hands the error on
EnumFromBitsChecked(table, r) ==
    IF ~r.ok THEN r
    ELSE IF r.val \in table THEN r
    ELSE Err(InvalidVariant(r.val), r.d, << >>)

\* impl Bits for E: from_bits is Self::from_value(bits).unwrap()
EnumFromBits(table, r) ==
    IF ~r.ok THEN r
    ELSE IF from_value(table, r.val).ok THEN r
    ELSE Err(Panicked(r.val), r.d, << >>)

\* A variant of EnumFromValue that lets every number through
EnumFromValueAny(table, r) == r

\* T::from_value(..) applied to a number that was read
EnumFromValue(table, r) ==
    IF ~r.ok THEN r
    ELSE IF from_value(table, r.val).ok THEN r
    ELSE Err(InvalidVariant(r.val), r.d, << >>)

\* Decoder::read_enum::<T, U>
read_enum(d, table, size) ==
    Once({ EnumFromValue(table, r) : r \in { read_primitive(d, size) } })

\* Decoder::read_enum_bits::<T>
read_enum_bits(d, table, num_bits) ==
    Once({ EnumFromBits(table, r) : r \in { read_bits(d, num_bits) } })

\* Decoder::read_enum_array::<T, U>: the u16 count, then the items; collect()
\* stops at the first Err
RECURSIVE EnumItems(_, _, _, _, _)
EnumItemsNext(table, size, n, acc, r) ==
    IF ~r.ok THEN r ELSE EnumItems(table, size, n - 1, r.d, Append(acc, r.val))

EnumItems(table, size, n, d, acc) ==
    IF n = 0 THEN Ok(acc, d, << >>)
    ELSE Once({ EnumItemsNext(table, size, n, acc, r) : r \in { read_enum(d, table, size) } })

EnumArrayCount(table, size, c) ==
    IF ~c.ok THEN c ELSE EnumItems(table, size, c.val, c.d, << >>)

read_enum_array(d, table, size) ==
    Once({ EnumArrayCount(table, size, c) : c \in { read_primitive(d, 2) } })

MaxEnumBytes == 3

EnumByteVals == {0, 1, 2, 3}

\* value tables: one that fits a bit, one that fits a byte, one with values
\* beyond a byte
EnumTables == { {0, 1}, {0, 2, 3}, {1, 256, 513} }

EnumField(ty, num_bits) == Field("Enum", "Raw", ty, 0, num_bits)

InitEnum ==
    /\ pc = "enum"
    /\ data \in SeqsUpTo(EnumByteVals, MaxEnumBytes)
    /\ decoder = NewDecoder(data)
    /\ encoder = NewEncoder(<< >>)
    /\ last = NoLast
    /\ \E table \in EnumTables : value = [ty |-> "enum", v |-> [table |-> table, e |-> 0, x |-> 0]]

EnumStep(op, f, r) ==
    /\ last' = [op |-> op, f |-> f, pre |-> decoder, res |-> r]
    /\ decoder' = r.d
    /\ pc' = IF r.ok THEN "enum" ELSE "failed"
    /\ UNCHANGED <<data, encoder, value>>

ReadEnum ==
    /\ pc = "enum"
    /\ \E size \in {1, 2} :
           EnumStep("read_enum", EnumField(IF size = 1 THEN "u8" ELSE "u16", 0),
                    read_enum(decoder, value.v.table, size))

ReadEnumBits ==
    /\ pc = "enum"
    /\ \E n \in {1, 2, 9} :
           EnumStep("read_enum_bits", EnumField("u16", n),
                    read_enum_bits(decoder, value.v.table, n))

ReadEnumArray ==
    /\ pc = "enum"
    /\ \E size \in {1, 2} :
           EnumStep("read_enum_array", EnumField(IF size = 1 THEN "u8" ELSE "u16", 0),
                    read_enum_array(decoder, value.v.table, size))

\* from_value(to_value::<U>(e)) for a variant e
ConvertVariant ==
    /\ pc = "enum"
    /\ \E e \in value.v.table : \E U \in {"bool", "u8", "u16"} :
           /\ value' = [value EXCEPT !.v.e = e]
           /\ last' = [op |-> "to_value", f |-> EnumField(U, 0), pre |-> decoder,
                       res |-> from_value(value.v.table, to_value(U, e))]
    /\ pc' = "converted"
    /\ UNCHANGED <<data, decoder, encoder>>

\* from_value(x) for a number x
ConvertNumber ==
    /\ pc = "enum"
    /\ \E x \in 0..3 \cup {255, 256, 257, 513, 65535} :
           /\ value' = [value EXCEPT !.v.x = x]
           /\ last' = [op |-> "from_value", f |-> EnumField("u16", 0), pre |-> decoder,
                       res |-> from_value(value.v.table, x)]
    /\ pc' = "converted"
    /\ UNCHANGED <<data, decoder, encoder>>

NextEnum == ReadEnum \/ ReadEnumBits \/ ReadEnumArray \/ ConvertVariant \/ ConvertNumber

SpecEnum == InitEnum /\ [][NextEnum]_vars

\* the number a read_enum operation found under the cursor
EnumRead(b, size) == IF size = 1 THEN b[1] ELSE b[1] * 256 + b[2]

\* C13: on every enumeration decode path of the runtime (read_enum,
\* read_enum_array, read_enum_bits) an underlying value v that is not in the
\* value table makes the decode return InvalidVariant(v); no input aborts the
\* decode instead of returning an error.
C13_InvalidVariantReturned ==
    /\ last.op \in {"read_enum", "read_enum_bits", "read_enum_array"} =>
         last.res.err.kind # "panic"
    /\ (/\ last.op = "read_enum"
        /\ Len(last.pre.bytes) >= 2
        /\ EnumRead(last.pre.bytes, IF last.f.ty = "u8" THEN 1 ELSE 2) \notin value.v.table) =>
         last.res.err = InvalidVariant(EnumRead(last.pre.bytes, IF last.f.ty = "u8" THEN 1 ELSE 2))
    /\ (/\ last.op = "read_enum_bits"
        /\ Len(last.pre.bytes) >= 2
        /\ last.pre.valid_bits = 0
        /\ BitsFrom(last.pre.bytes, 0, last.f.num_bits) \notin value.v.table) =>
         last.res.err = InvalidVariant(BitsFrom(last.pre.bytes, 0, last.f.num_bits))
    /\ (/\ last.op = "read_enum_array"
        /\ Len(last.pre.bytes) >= 3
        /\ EnumRead(last.pre.bytes, 2) = 1
        /\ last.f.ty = "u8"
        /\ last.pre.bytes[3] \notin value.v.table) =>
         last.res.err = InvalidVariant(last.pre.bytes[3])

\* the same for the whole-byte paths read_enum and read_enum_array
InvalidVariantReturnedWholeBytes ==
    /\ last.op \in {"read_enum", "read_enum_array"} => last.res.err.kind # "panic"
    /\ (/\ last.op = "read_enum"
        /\ Len(last.pre.bytes) >= 2
        /\ EnumRead(last.pre.bytes, IF last.f.ty = "u8" THEN 1 ELSE 2) \notin value.v.table) =>
         last.res.err = InvalidVariant(EnumRead(last.pre.bytes, IF last.f.ty = "u8" THEN 1 ELSE 2))
    /\ (/\ last.op = "read_enum_array"
        /\ Len(last.pre.bytes) >= 3
        /\ EnumRead(last.pre.bytes, 2) = 1
        /\ last.f.ty = "u8"
        /\ last.pre.bytes[3] \notin value.v.table) =>
         last.res.err = InvalidVariant(last.pre.bytes[3])

\* C14: for every enumeration E with u16 variant values and every underlying
\* type U in bool, u8, u16, from_value(to_value::<U>(e)) = e for every variant
\* e of E, and from_value(x) is an error if and only if x is not the value of
\* a defined variant.
C14_EnumClosure ==
    /\ last.op = "to_value" => (last.res.ok /\ last.res.val = value.v.e)
    /\ last.op = "from_value" => (~last.res.ok <=> value.v.x \notin value.v.table)

\* the same for the variants whose value the underlying type can hold
EnumClosureWhereValueFits ==
    /\ (last.op = "to_value" /\ from_bits(last.f.ty, value.v.e) = value.v.e) =>
         (last.res.ok /\ last.res.val = value.v.e)
    /\ last.op = "from_value" =>
         /\ ~last.res.ok <=> value.v.x \notin value.v.table
         /\ last.res.ok => last.res.val = value.v.x
         /\ ~last.res.ok => last.res.err = InvalidVariant(value.v.x)

-----------------------------------------------------------------------------
(* Generated messages: LLRPMessage::decode of define_message and the        *)
(* dispatcher Message::decode of generate. value.v is the message_id handed *)
(* to the dispatcher.                                                       *)

UnknownMessageId(n) == [kind |-> "UnknownMessageId", a |-> n, b |-> 0]

KeepAliveId == 62
EventId == 63
ReportId == 61

MessageNames == <<"KeepAlive", "Event", "Report">>

\* Definition::Message { id, fields }
MessageDef(name) ==
    CASE name = "KeepAlive" -> [id |-> KeepAliveId, fields |-> << >>]
      [] name = "Event" -> [id |-> EventId, fields |-> << TlvField("Raw", "Mark") >>]
      [] name = "Report" ->
           [id |-> ReportId,
            fields |-> << U8Field, TlvField("Option", "Leaf"),
                          TlvField("Vec", "Mark"), BitsField(4) >>]

\* A variant of MessageFinish that demands an empty cursor
MessageFinishStrict(r) ==
    IF ~r.ok THEN r
    ELSE IF r.d.bytes # << >> THEN Err(TrailingBytes(Len(r.d.bytes)), r.d, r.log)
    ELSE Ok(<< r.val, r.d.bytes >>, r.d, r.log)

\* Ok((__result, decoder.bytes))
MessageFinish(r) ==
    IF ~r.ok THEN r ELSE Ok(<< r.val, r.d.bytes >>, r.d, r.log)

\* define_message: decode (a fresh Decoder, the fields in order, the rest)
MessageDecode(name, bytes) ==
    Once({ MessageFinish(r) :
           r \in { DecodeFields(MessageDef(name).fields, 1, NewDecoder(bytes), << >>, << >>) } })

\* Ok(Self::M(M::decode(payload)?.0))
MessageVariant(name, r) == IF ~r.ok THEN r ELSE Ok(<< name, r.val[1] >>, r.d, r.log)

\* A variant of DispatchKey that matches on the whole message_id
DispatchKeyWide(message_id) == message_id

\* match message_id as u16
DispatchKey(message_id) == message_id % U16Mod

\* generate: Message::decode, the arms in definition order
RECURSIVE DispatchArms(_, _, _, _)
DispatchArms(i, key, message_id, payload) ==
    IF i > Len(MessageNames)
    THEN Err(UnknownMessageId(message_id), NoDecoder, << >>)
    ELSE IF MessageDef(MessageNames[i]).id = key
    THEN Once({ MessageVariant(MessageNames[i], r) :
                r \in { MessageDecode(MessageNames[i], payload) } })
    ELSE DispatchArms(i + 1, key, message_id, payload)

Message_decode(message_id, payload) ==
    DispatchArms(1, DispatchKey(message_id), message_id, payload)

\* payloads: parameters, with or without a leading byte
MessagePayloads == { p \o c : p \in {<< >>, << 7 >>, << 7, 0, 129, 0, 5, 9 >>}, c \in Chunks(MaxChunks) }

\* message ids: the defined ones, their neighbours, and numbers that agree
\* with a defined one in the low 16 bits
DispatchIds ==
    {0, 60, KeepAliveId, EventId, ReportId, 64, U16Mod - 1, U16Mod,
     U16Mod + KeepAliveId, 3 * U16Mod + EventId}

InitMessage ==
    /\ pc = "message"
    /\ data \in MessagePayloads
    /\ decoder = NewDecoder(data)
    /\ encoder = NewEncoder(<< >>)
    /\ last = NoLast
    /\ value = [ty |-> "message_id", v |-> 0]

\* M::decode(data)
DecodeMessage ==
    /\ pc = "message"
    /\ \E i \in 1..Len(MessageNames) :
       \E r \in { MessageDecode(MessageNames[i], data) } :
           /\ last' = [op |-> "message", f |-> TlvField("Raw", MessageNames[i]),
                       pre |-> NewDecoder(data), res |-> r]
           /\ decoder' = r.d
    /\ pc' = "decoded"
    /\ UNCHANGED <<data, encoder, value>>

\* Message::decode(message_id, payload)
Dispatch ==
    /\ pc = "message"
    /\ \E message_id \in DispatchIds :
       \E r \in { Message_decode(message_id, data) } :
           /\ last' = [op |-> "dispatch", f |-> U8Field, pre |-> NewDecoder(data), res |-> r]
           /\ decoder' = r.d
           /\ value' = [value EXCEPT !.v = message_id]
    /\ pc' = "dispatched"
    /\ UNCHANGED <<data, encoder>>

NextMessage == DecodeMessage \/ Dispatch

SpecMessage == InitMessage /\ [][NextMessage]_vars

\* the messages with a type number
MessagesWithId(n) ==
    { i \in 1..Len(MessageNames) : MessageDef(MessageNames[i]).id = n }

\* C15: Message::decode(message_id, payload) returns the variant of message
\* M exactly when message_id is M's type number, and UnknownMessageId for
\* every u32 message_id that is not the type number of a defined message.
C15_DispatchByTypeNumber ==
    last.op = "dispatch" =>
        /\ \A i \in MessagesWithId(value.v) :
             last.res = MessageVariant(MessageNames[i], MessageDecode(MessageNames[i], data))
        /\ MessagesWithId(value.v) = { } =>
             (~last.res.ok /\ last.res.err = UnknownMessageId(value.v))

\* the same with message_id taken modulo 65536 in the match
DispatchByLow16Bits ==
    last.op = "dispatch" =>
        /\ \A i \in MessagesWithId(value.v % U16Mod) :
             last.res = MessageVariant(MessageNames[i], MessageDecode(MessageNames[i], data))
        /\ MessagesWithId(value.v % U16Mod) = { } =>
             (~last.res.ok /\ last.res.err = UnknownMessageId(value.v))

\* the decoder the i-th field of a message meets, and whether the fields
\* before it decoded, when the fields are decoded one after another from a
\* decoder with an empty accumulator
RECURSIVE FieldChain(_, _, _)
FieldChainNext(f, c) ==
    IF ~c.ok THEN c
    ELSE Once({ [ok |-> r.ok, d |-> r.d, vals |-> IF r.ok THEN Append(c.vals, r.val) ELSE c.vals] :
                r \in { DecodeField(f, c.d) } })

FieldChain(fields, i, bytes) ==
    IF i = 0
    THEN [ok |-> TRUE, d |-> [bytes |-> bytes, bits |-> 0, valid_bits |-> 0], vals |-> << >>]
    ELSE FieldChainNext(fields[i], FieldChain(fields, i - 1, bytes))

\* C20: LLRPMessage::decode(data) starts from a fresh decoder with an empty
\* bit accumulator, decodes the fields in declaration order and returns the
\* unconsumed suffix of data as the remainder; bytes after the last field are
\* no error, and the consumed prefix followed by the remainder is data.
C20_MessageRemainder ==
    last.op = "message" =>
        \E c \in { FieldChain(MessageDef(last.f.ty).fields,
                              Len(MessageDef(last.f.ty).fields), data) } :
            /\ last.res.ok = c.ok
            /\ last.res.ok =>
                 /\ last.res.val[1] = c.vals
                 /\ last.res.val[2] = c.d.bytes
                 /\ Len(last.res.val[2]) <= Len(data)
                 /\ last.res.val[2] = Drop(data, Len(data) - Len(last.res.val[2]))

\* a message of several fields was decoded and bytes were left over
C20_Witness ==
    /\ last.op = "message"
    /\ last.f.ty = "Report"
    /\ last.res.ok
    /\ last.res.val[1][2] # << >>
    /\ last.res.val[1][3] # << >>
    /\ last.res.val[2] # << >>

-----------------------------------------------------------------------------
(* The message envelope (llrp/src/binary.rs): read_message on a byte        *)
(* stream and write_message into one. The reader is the cursor decoder.bytes*)
(* and the writer the vector encoder.buffer; value.v is the list of the     *)
(* BinaryMessages written. A 32-bit word is read from bytes whose first is  *)
(* below 128, so that it stays below 2^31.                                  *)

LLRP_HEADER_LENGTH == 10

IoError(kind) == [kind |-> kind, a |-> 0, b |-> 0]

\* u32 from and to big-endian bytes
from_be_bytes32(bs) == ((bs[1] * 256 + bs[2]) * 256 + bs[3]) * 256 + bs[4]
to_be_bytes32(x) ==
    << (x \div 16777216) % 256, (x \div 65536) % 256, (x \div 256) % 256, x % 256 >>

\* io::Read::read_exact on a cursor (ReadBytesExt::read_u16 and read_u32 go
\* through it)
read_exact(r, n) ==
    IF Len(r.bytes) < n
    THEN Err(IoError("UnexpectedEof"), r, << >>)
    ELSE Ok(Take(r.bytes, n), [r EXCEPT !.bytes = Drop(r.bytes, n)], << >>)

BinaryMessage(ver, message_type, id, val) ==
    [ver |-> ver, message_type |-> message_type, id |-> id, value |-> val]

\* A variant of EnvelopeVer without the mask
EnvelopeVerUnmasked(prefix) == Shr(prefix, 10) % U8Mod

\* let ver = ((prefix >> 10) & 0b111) as u8
EnvelopeVer(prefix) == Shr(prefix, 10) % 8

\* let message_type = prefix & 0b11_1111_1111
EnvelopeType(prefix) == prefix % 1024

\* read_message: reader.read_exact(&mut value)? and the result
ReadValue(prefix, id, v) ==
    IF ~v.ok THEN v
    ELSE Ok(BinaryMessage(EnvelopeVer(prefix), EnvelopeType(prefix), id, v.val), v.d, << >>)

\* read_message: let id = reader.read_u32()?; value of length - 10 bytes
ReadId(prefix, length, i) ==
    IF ~i.ok THEN i
    ELSE Once({ ReadValue(prefix, from_be_bytes32(i.val), v) :
                v \in { read_exact(i.d, length - LLRP_HEADER_LENGTH) } })

\* read_message: let length = reader.read_u32()? and its check
ReadLength(prefix, l) ==
    IF ~l.ok THEN l
    ELSE IF from_be_bytes32(l.val) < LLRP_HEADER_LENGTH
    THEN Err(IoError("InvalidData"), l.d, << >>)
    ELSE Once({ ReadId(prefix, from_be_bytes32(l.val), i) : i \in { read_exact(l.d, 4) } })

\* read_message: let prefix = reader.read_u16()?
ReadPrefix(p) ==
    IF ~p.ok THEN p
    ELSE Once({ ReadLength(from_be_bytes(p.val), l) : l \in { read_exact(p.d, 4) } })

\* read_message (deserializer.rs deserialize_raw is the same code)
read_message(r) == Once({ ReadPrefix(p) : p \in { read_exact(r, 2) } })

\* A variant of FrameLength that counts the payload only
FrameLengthPayload(n) == n

\* (message.value.len() + LLRP_HEADER_LENGTH) as u32
FrameLength(n) == n + LLRP_HEADER_LENGTH

\* write_message: the prefix bytes
WritePrefix(m) ==
    << BitOr(((m.ver % 8) * 4) % U8Mod, Shr(m.message_type, 8) % U8Mod),
       m.message_type % U8Mod >>

\* write_message into a Vec<u8>
write_message(e, m) ==
    write_bytes(
        write_bytes(
            write_bytes(write_bytes(e, WritePrefix(m)),
                        to_be_bytes32(FrameLength(Len(m.value)))),
            to_be_bytes32(m.id)),
        m.value)

MaxFrames == 2

\* the frame of src/llrp/src/tests.rs reader_event_notifications_conn_attempt
\* (version 1, type 63, id 989540519, 22 payload bytes)
ConnAttemptFrame ==
    << 4, 63, 0, 0, 0, 32, 58, 251, 48, 167, 0, 246, 0, 22, 0, 128, 0, 12, 0, 5,
       136, 128, 17, 159, 142, 173, 1, 0, 0, 6, 0, 0 >>

RawFrames ==
    { ConnAttemptFrame,
      << 4, 64, 0, 0, 0, 10, 0, 0, 0, 8 >>,        \* no payload
      << 251, 127, 0, 0, 0, 11, 0, 0, 1, 0, 9 >>,  \* reserved bits set, one payload byte
      << 4, 64, 0, 0, 0, 9, 0, 0, 0, 8 >>,         \* length below 10
      << 4, 64, 0, 0, 0, 12, 0, 0, 0, 8, 1 >>,     \* one payload byte short
      << 4, 64, 0, 0, 1, 0, 0, 0 >>,               \* cut inside the id
      << 4, 64, 0 >>,                              \* cut inside the length
      << 4 >> }

RECURSIVE Streams(_)
Streams(n) ==
    IF n = 0 THEN {<< >>}
    ELSE Streams(n - 1) \cup { f \o t : f \in RawFrames, t \in Streams(n - 1) }

EnvelopeIds == << 0, 8, 989540519 >>
EnvelopePayloads == << << >>, << 0, 8 >>, << 4, 63, 0, 0, 0, 10, 0, 0, 0, 1 >> >>

\* messages with ver in 0..7 and message_type in 0..1023
EnvelopeMessages ==
    { BinaryMessage(v, t, EnvelopeIds[((v + t) % 3) + 1], EnvelopePayloads[(t % 3) + 1]) :
      v \in {0, 1, 7}, t \in {0, 63, 767, 1023} }

InitStream ==
    /\ pc = "stream"
    /\ data \in Streams(MaxFrames)
    /\ decoder = NewDecoder(data)
    /\ encoder = NewEncoder(<< >>)
    /\ last = NoLast
    /\ value = [ty |-> "messages", v |-> << >>]

InitCompose ==
    /\ pc = "compose"
    /\ data = << >>
    /\ decoder = NoDecoder
    /\ encoder = NewEncoder(<< >>)
    /\ last = NoLast
    /\ value = [ty |-> "messages", v |-> << >>]

InitEnvelope == InitStream \/ InitCompose

\* read_message(&mut reader) on the stream; after an error the position of
\* the reader is the one it had or any later one
ReadMessage ==
    /\ pc = "stream"
    /\ \E r \in { read_message(decoder) } :
           /\ last' = [op |-> "read_message", f |-> U8Field, pre |-> decoder, res |-> r]
           /\ IF r.ok
              THEN decoder' = r.d /\ pc' = "stream"
              ELSE /\ \E k \in {0, Len(decoder.bytes) - Len(r.d.bytes), Len(decoder.bytes)} :
                        decoder' = [decoder EXCEPT !.bytes = Drop(decoder.bytes, k)]
                   /\ pc' = "failed"
    /\ UNCHANGED <<data, encoder, value>>

\* write_message(&mut buffer, message)
WriteMessage ==
    /\ pc = "compose"
    /\ Len(value.v) < MaxFrames
    /\ \E m \in EnvelopeMessages :
           /\ encoder' = write_message(encoder, m)
           /\ value' = [value EXCEPT !.v = Append(@, m)]
    /\ UNCHANGED <<data, decoder, last, pc>>

\* the bytes written become the stream that is read
StartReadBack ==
    /\ pc = "compose"
    /\ data' = encoder.buffer
    /\ decoder' = NewDecoder(encoder.buffer)
    /\ last' = [op |-> "read_back", f |-> U8Field, pre |-> NewDecoder(encoder.buffer),
                res |-> Ok(<< >>, NewDecoder(encoder.buffer), << >>)]
    /\ pc' = "readback"
    /\ UNCHANGED <<encoder, value>>

\* one more read_message on the written stream; last.res.val collects the
\* messages read
NextReadBack ==
    /\ pc = "readback"
    /\ \E r \in { read_message(decoder) } :
           /\ last' = [op |-> "read_back", f |-> U8Field, pre |-> decoder,
                       res |-> IF r.ok THEN Ok(Append(last.res.val, r.val), r.d, << >>) ELSE r]
           /\ decoder' = r.d
           /\ pc' = IF r.ok THEN "readback" ELSE "drained"
    /\ UNCHANGED <<data, encoder, value>>

NextEnvelope == ReadMessage \/ WriteMessage \/ StartReadBack \/ NextReadBack

SpecEnvelope == InitEnvelope /\ [][NextEnvelope]_vars

\* the total length a stream states in bytes 2..5 (at least six bytes)
StatedLength(b) == ((b[3] * 256 + b[4]) * 256 + b[5]) * 256 + b[6]

\* C16: read_message on a stream that begins with a frame of total length
\* L >= 10 returns ver = bits 10..12 of the first 16-bit word, message_type =
\* its low 10 bits, id = the 32-bit word at bytes 6..9 and a payload of exactly
\* L - 10 bytes, consuming exactly L bytes; it returns an error when L < 10 or
\* when the stream ends before L bytes.
C16_EnvelopeRead ==
    last.op = "read_message" =>
        IF /\ Len(last.pre.bytes) >= LLRP_HEADER_LENGTH
           /\ StatedLength(last.pre.bytes) >= LLRP_HEADER_LENGTH
           /\ StatedLength(last.pre.bytes) <= Len(last.pre.bytes)
        THEN /\ last.res.ok
             /\ last.res.val.ver = (last.pre.bytes[1] \div 4) % 8
             /\ last.res.val.message_type = (last.pre.bytes[1] % 4) * 256 + last.pre.bytes[2]
             /\ last.res.val.id =
                  ((last.pre.bytes[7] * 256 + last.pre.bytes[8]) * 256
                     + last.pre.bytes[9]) * 256 + last.pre.bytes[10]
             /\ last.res.val.value =
                  SubSeq(last.pre.bytes, LLRP_HEADER_LENGTH + 1, StatedLength(last.pre.bytes))
             /\ decoder.bytes = Drop(last.pre.bytes, StatedLength(last.pre.bytes))
        ELSE ~last.res.ok

\* the frame of the reader event notification was read after another frame
C16_Witness ==
    /\ last.op = "read_message"
    /\ last.res.ok
    /\ Len(last.pre.bytes) < Len(data)
    /\ last.res.val = BinaryMessage(1, 63, 989540519, Drop(ConnAttemptFrame, LLRP_HEADER_LENGTH))

\* the bytes of the frames of the first k messages written
RECURSIVE FramesSize(_, _)
FramesSize(ms, k) ==
    IF k = 0 THEN 0 ELSE FramesSize(ms, k - 1) + LLRP_HEADER_LENGTH + Len(ms[k].value)

\* C17: for any sequence of BinaryMessages with ver in 0..7 and message_type
\* in 0..1023 written back to back with write_message, each frame's 32-bit
\* length field is 10 + its payload size, and successive read_message calls
\* on the stream return the same (ver, message_type, id, value) tuples in the
\* same order, each consuming exactly one frame.
C17_EnvelopeRoundTrip ==
    /\ pc = "compose" =>
         \A k \in 1..Len(value.v) :
             /\ FramesSize(value.v, k) <= Len(encoder.buffer)
             /\ StatedLength(Drop(encoder.buffer, FramesSize(value.v, k - 1)))
                  = LLRP_HEADER_LENGTH + Len(value.v[k].value)
    /\ pc = "readback" =>
         /\ Len(last.res.val) <= Len(value.v)
         /\ last.res.val = Take(value.v, Len(last.res.val))
         /\ decoder.bytes = Drop(data, FramesSize(value.v, Len(last.res.val)))
    /\ pc = "drained" =>
         /\ last.pre.bytes = << >>
         /\ Len(data) = FramesSize(value.v, Len(value.v))

\* two messages were written and both read back
C17_Witness ==
    /\ pc = "readback"
    /\ Len(value.v) = 2
    /\ Len(last.res.val) = 2
    /\ value.v[1] # value.v[2]
    /\ value.v[2].value # << >>

-----------------------------------------------------------------------------
(* BitArray (u1v fields): impl LLRPValue for BitArray. A BitArray value is  *)
(* the sequence of its bytes.                                               *)

\* BitArray::decode: the bytes after the count
BitArrayBytes(n) ==
    IF ~n.ok THEN n ELSE read_bytes(n.d, n.val \div 8)

\* BitArray::decode
BitArray_decode(d) == Once({ BitArrayBytes(n) : n \in { read_primitive(d, 2) } })

\* BitArray::encode
BitArray_encode(e, bytes) == write_bytes(e, to_be_bytes16((Len(bytes) \div 8) % U16Mod))

MaxArrayWire == 4
MaxArrayLen == 8

ArrayWireVals == {0, 8, 9, 16}
ArrayByteVals == {11, 255}

InitBitWire ==
    /\ pc = "bitwire"
    /\ data \in SeqsUpTo(ArrayWireVals, MaxArrayWire)
    /\ decoder = NewDecoder(data)
    /\ encoder = NewEncoder(<< >>)
    /\ last = NoLast
    /\ value = NoValue

InitBitValue ==
    /\ pc = "bitvalue"
    /\ \E bytes \in SeqsUpTo(ArrayByteVals, MaxArrayLen) : value = [ty |-> "BitArray", v |-> bytes]
    /\ data = << >>
    /\ decoder = NoDecoder
    /\ encoder = NewEncoder(<< >>)
    /\ last = NoLast

InitBitArray == InitBitWire \/ InitBitValue

\* BitArray::decode on a buffer
DecodeBitArray ==
    /\ pc = "bitwire"
    /\ \E r \in { BitArray_decode(decoder) } :
           /\ last' = [op |-> "bitarray_decode", f |-> U8Field, pre |-> decoder, res |-> r]
           /\ decoder' = r.d
           /\ value' = IF r.ok THEN [ty |-> "BitArray", v |-> r.val] ELSE value
           /\ pc' = IF r.ok THEN "bitdecoded" ELSE "bitfailed"
    /\ UNCHANGED <<data, encoder>>

\* BitArray::encode of the value decoded
ReEncodeBitArray ==
    /\ pc = "bitdecoded"
    /\ encoder' = BitArray_encode(encoder, value.v)
    /\ pc' = "bitreencoded"
    /\ UNCHANGED <<data, decoder, last, value>>

\* BitArray::encode of a value
EncodeBitArray ==
    /\ pc = "bitvalue"
    /\ encoder' = BitArray_encode(encoder, value.v)
    /\ pc' = "bitencoded"
    /\ UNCHANGED <<data, decoder, last, value>>

\* BitArray::decode of what encode wrote
DecodeBitArrayBack ==
    /\ pc = "bitencoded"
    /\ \E r \in { BitArray_decode(NewDecoder(encoder.buffer)) } :
           /\ last' = [op |-> "bitarray_back", f |-> U8Field,
                       pre |-> NewDecoder(encoder.buffer), res |-> r]
           /\ decoder' = r.d
    /\ data' = encoder.buffer
    /\ pc' = "bitback"
    /\ UNCHANGED <<encoder, value>>

NextBitArray == DecodeBitArray \/ ReEncodeBitArray \/ EncodeBitArray \/ DecodeBitArrayBack

SpecBitArray == InitBitArray /\ [][NextBitArray]_vars

\* C18: for every BitArray with L bytes, encode emits the big-endian 16-bit
\* bit count 8*L followed by the L bytes, and decoding that output yields an
\* equal BitArray and consumes all of it; re-encoding a decoded BitArray
\* reproduces the bytes it was decoded from.
C18_BitArrayRoundTrip ==
    /\ pc = "bitencoded" =>
         encoder.buffer = to_be_bytes16(8 * Len(value.v)) \o value.v
    /\ pc = "bitback" =>
         /\ last.res.ok
         /\ last.res.val = value.v
         /\ decoder.bytes = << >>
    /\ pc = "bitreencoded" =>
         encoder.buffer = Take(data, Len(data) - Len(decoder.bytes))

\* What encode does write: two bytes, the count L div 8, and decoding them
\* gives the empty BitArray whenever L < 64
BitArrayEncodesByteCountOnly ==
    /\ pc \in {"bitencoded", "bitback", "bitreencoded"} =>
         encoder.buffer = to_be_bytes16(Len(value.v) \div 8)
    /\ pc = "bitback" =>
         /\ last.res.ok
         /\ last.res.val = << >>

\* C19: BitArray decoding reads num_bits as a big-endian u16 and then
\* consumes exactly ceil(num_bits / 8) payload bytes, for every num_bits
\* including those that are not a multiple of 8.
C19_BitArrayCeilBytes ==
    (last.op = "bitarray_decode" /\ last.res.ok) =>
        Len(last.pre.bytes) - Len(decoder.bytes)
            = 2 + (from_be_bytes(Take(last.pre.bytes, 2)) + 7) \div 8

\* What decode does consume: floor(num_bits / 8) payload bytes
BitArrayFloorBytes ==
    last.op = "bitarray_decode" =>
        /\ last.res.ok <=>
             /\ Len(last.pre.bytes) >= 2
             /\ Len(last.pre.bytes) >= 2 + from_be_bytes(Take(last.pre.bytes, 2)) \div 8
        /\ last.res.ok =>
             /\ Len(last.pre.bytes) - Len(decoder.bytes)
                  = 2 + from_be_bytes(Take(last.pre.bytes, 2)) \div 8
             /\ last.res.val
                  = SubSeq(last.pre.bytes, 3, 2 + from_be_bytes(Take(last.pre.bytes, 2)) \div 8)

-----------------------------------------------------------------------------
(* The normaliser (llrp-codegen/src/repr.rs): parse_definitions on a list   *)
(* of input definitions [kind, type_num]. data is the input list and        *)
(* last.res the Vec<Definition> returned, or the panic of the assert.       *)

TvParameterDef(id) == [kind |-> "TvParameter", id |-> id]
ParameterDef(id) == [kind |-> "Parameter", id |-> id]
MessageDef16(id) == [kind |-> "Message", id |-> id]

\* the largest type number of a TV parameter (type_num > 127 is skipped)
TvRangeEnd == 127

\* assert!(def.type_num < 2048, ..)
TypeNumLimit == 2048

\* parse_definitions: the first loop (TV parameters)
RECURSIVE TvPass(_)
TvPass(defs) ==
    IF defs = << >> THEN << >>
    ELSE (IF Head(defs).kind = "Parameter" /\ ~(Head(defs).type_num > TvRangeEnd)
          THEN << TvParameterDef(Head(defs).type_num % U8Mod) >>
          ELSE << >>) \o TvPass(Tail(defs))

\* the condition of the assert
TypeNumAdmitted(type_num) == type_num < TypeNumLimit

\* parse_definitions: the second loop (all other definitions)
RECURSIVE MainPass(_, _)
MainPass(defs, definitions) ==
    IF defs = << >> THEN Ok(definitions, NoDecoder, << >>)
    ELSE IF Head(defs).kind = "Message"
    THEN MainPass(Tail(defs), Append(definitions, MessageDef16(Head(defs).type_num)))
    ELSE IF Head(defs).kind = "Parameter"
    THEN IF Head(defs).type_num <= TvRangeEnd
         THEN MainPass(Tail(defs), definitions)
         ELSE IF ~TypeNumAdmitted(Head(defs).type_num)
         THEN Err(Panicked(Head(defs).type_num), NoDecoder, << >>)
         ELSE MainPass(Tail(defs), Append(definitions, ParameterDef(Head(defs).type_num)))
    ELSE MainPass(Tail(defs), definitions)

parse_definitions(defs) == MainPass(defs, TvPass(defs))

MaxDefs == 2

TypeNums == {0, 1, 127, 128, 1023, 1024, 2047, 2048}

InputDefs == { [kind |-> k, type_num |-> n] : k \in {"Message", "Parameter", "Namespace"},
                                              n \in TypeNums }

InitNormalise ==
    /\ pc = "definitions"
    /\ data \in SeqsUpTo(InputDefs, MaxDefs)
    /\ decoder = NoDecoder
    /\ encoder = NewEncoder(<< >>)
    /\ last = NoLast
    /\ value = NoValue

ParseDefinitions ==
    /\ pc = "definitions"
    /\ last' = [op |-> "parse_definitions", f |-> U8Field, pre |-> NoDecoder,
                res |-> parse_definitions(data)]
    /\ pc' = "normalised"
    /\ UNCHANGED <<data, decoder, encoder, value>>

NextNormalise == ParseDefinitions

SpecNormalise == InitNormalise /\ [][NextNormalise]_vars

\* the ids of the definitions of one kind, in the order of the list
IdsOf(defs, kind) == SelectSeq(defs, LAMBDA x : x.kind = kind)

NoRepeat(sq) == \A i, j \in 1..Len(sq) : sq[i].id = sq[j].id => i = j

\* C21: parse_definitions either rejects the input or yields definitions in
\* which every TLV Parameter id lies in [128, 1023] and every TvParameter id
\* in [1, 127], with no two TLV parameters sharing an id and no two TV
\* parameters sharing an id.
C21_TypeNumbersUniqueInRange ==
    (last.op = "parse_definitions" /\ last.res.ok) =>
        /\ \A i \in 1..Len(last.res.val) :
             /\ last.res.val[i].kind = "Parameter" =>
                  last.res.val[i].id >= 128 /\ last.res.val[i].id <= 1023
             /\ last.res.val[i].kind = "TvParameter" =>
                  last.res.val[i].id >= 1 /\ last.res.val[i].id <= 127
        /\ NoRepeat(IdsOf(last.res.val, "Parameter"))
        /\ NoRepeat(IdsOf(last.res.val, "TvParameter"))

\* What the normaliser does ensure: TLV ids in [128, 2047] and TV ids in
\* [0, 127], and a rejection exactly when a Parameter has type_num >= 2048
NormaliserRanges ==
    last.op = "parse_definitions" =>
        /\ last.res.ok <=>
             \A i \in 1..Len(data) : data[i].kind = "Parameter" => data[i].type_num < 2048
        /\ last.res.ok =>
             \A i \in 1..Len(last.res.val) :
                 /\ last.res.val[i].kind = "Parameter" =>
                      last.res.val[i].id >= 128 /\ last.res.val[i].id <= 2047
                 /\ last.res.val[i].kind = "TvParameter" =>
                      last.res.val[i].id >= 0 /\ last.res.val[i].id <= 127

-----------------------------------------------------------------------------
(* Reserved bit-fields: parse_fields maps Field::Reserved { bit_count } to  *)
(* map_field("__reserved", "u<bit_count>", ..), a field like any other. The *)
(* struct Flagged has a u1 flag, 7 reserved bits and a u8.                  *)

\* parse_fields: Field::Reserved (type_of gives u8 as Manual, the other
\* widths below 16 as RawBits)
ReservedField(bit_count) == IF bit_count = 8 THEN U8Field ELSE BitsField(bit_count)

FlaggedFields == << BitsField(1), ReservedField(7), U8Field >>

\* the decode and the encode generated for the fields of Flagged
Flagged_decode(bytes) == DecodeFields(FlaggedFields, 1, NewDecoder(bytes), << >>, << >>)
Flagged_encode(v) == EncodeFields(FlaggedFields, 1, NewEncoder(<< >>), v)

MaxReservedBytes == 2

ReservedByteVals == {0, 1, 64, 127, 128, 129, 192, 255}

FlaggedVals == { << flag, reserved, n >> : flag \in {0, 1}, reserved \in {0, 1, 64, 127},
                                           n \in {0, 7, 255} }

InitReservedWire ==
    /\ pc = "reswire"
    /\ data \in SeqsUpTo(ReservedByteVals, MaxReservedBytes)
    /\ decoder = NewDecoder(data)
    /\ encoder = NewEncoder(<< >>)
    /\ last = NoLast
    /\ value = NoValue

InitReservedValue ==
    /\ pc = "resvalue"
    /\ \E v \in FlaggedVals : value = [ty |-> "Flagged", v |-> v]
    /\ data = << >>
    /\ decoder = NoDecoder
    /\ encoder = NewEncoder(<< >>)
    /\ last = NoLast

InitReserved == InitReservedWire \/ InitReservedValue

\* the generated decode on a buffer
DecodeFlagged ==
    /\ pc = "reswire"
    /\ \E r \in { Flagged_decode(data) } :
           /\ last' = [op |-> "flagged_decode", f |-> U8Field, pre |-> decoder, res |-> r]
           /\ decoder' = r.d
           /\ value' = IF r.ok THEN [ty |-> "Flagged", v |-> r.val] ELSE value
           /\ pc' = IF r.ok THEN "resdecoded" ELSE "resfailed"
    /\ UNCHANGED <<data, encoder>>

\* the generated encode of the value decoded
ReEncodeFlagged ==
    /\ pc = "resdecoded"
    /\ encoder' = Flagged_encode(value.v)
    /\ pc' = "resreencoded"
    /\ UNCHANGED <<data, decoder, last, value>>

\* the generated encode of a value
EncodeFlagged ==
    /\ pc = "resvalue"
    /\ encoder' = Flagged_encode(value.v)
    /\ pc' = "resencoded"
    /\ UNCHANGED <<data, decoder, last, value>>

NextReserved == DecodeFlagged \/ ReEncodeFlagged \/ EncodeFlagged

SpecReserved == InitReserved /\ [][NextReserved]_vars

\* a buffer of Flagged with its reserved bits (the low 7 of the first byte)
\* set to zero
ClearReserved(b) == [b EXCEPT ![1] = (b[1] \div 128) * 128]

\* C22: a reserved field of width n is written as n zero bits whatever the
\* in-memory value is, and the bits read at decode are discarded: two wire
\* buffers that differ only in reserved bits decode to equal values and
\* re-encode to the buffer whose reserved bits are all zero.
C22_ReservedCarryNothing ==
    /\ pc = "resencoded" => encoder.buffer[1] % 128 = 0
    /\ pc = "resdecoded" => value.v = Flagged_decode(ClearReserved(data)).val
    /\ pc = "resreencoded" => encoder.buffer = ClearReserved(Take(data, 2))

\* What the generated code does with the reserved bits: it keeps them
ReservedBitsKept ==
    /\ pc = "resencoded" => encoder.buffer[1] % 128 = value.v[2]
    /\ pc = "resdecoded" => value.v[2] = data[1] % 128
    /\ pc = "resreencoded" => encoder.buffer = Take(data, 2)

-----------------------------------------------------------------------------
(* The llrp-gen runtime (llrp-gen/base/common.rs) and the decode_tlv that   *)
(* llrp-gen/src/codegen.rs generates. Its functions take a slice and return *)
(* a value and the rest of the slice: a result Ok(v, d, ..) holds the rest  *)
(* in d.bytes.                                                              *)

\* split_at_checked: Ok((data[..mid], data[mid..]))
split_at_checked(bytes, mid) ==
    IF Len(bytes) < mid
    THEN Err(IoError("InvalidData"), NewDecoder(bytes), << >>)
    ELSE Ok(Take(bytes, mid), NewDecoder(Drop(bytes, mid)), << >>)

\* split_with_u16_length
split_with_u16_length(bytes) ==
    Once({ IF ~l.ok THEN l ELSE split_at_checked(l.d.bytes, from_be_bytes(l.val)) :
           l \in { split_at_checked(bytes, 2) } })

\* A variant of gen_validate_consumed that rejects the non-empty slice
gen_validate_consumed_nonempty(bytes) ==
    IF bytes # << >>
    THEN Err(IoError("InvalidData"), NewDecoder(bytes), << >>)
    ELSE Ok(<< >>, NewDecoder(bytes), << >>)

\* llrp-gen validate_consumed: if data.is_empty() { return Err(..) } Ok(())
gen_validate_consumed(bytes) ==
    IF bytes = << >>
    THEN Err(IoError("InvalidData"), NewDecoder(bytes), << >>)
    ELSE Ok(<< >>, NewDecoder(bytes), << >>)

\* llrp-gen parse_tlv_header: Ok((param_data, rest))
gen_parse_tlv_header(bytes, target_type) ==
    Once({ IF ~t.ok THEN t
           ELSE IF from_be_bytes(t.val) % 1024 # target_type
           THEN Err(InvalidType(from_be_bytes(t.val) % 1024), NewDecoder(bytes), << >>)
           ELSE split_with_u16_length(t.d.bytes) :
           t \in { split_at_checked(bytes, 2) } })

\* decode_field for n fields of type u8 (Encoding::Manual), in order
RECURSIVE GenFields(_, _, _)
GenFields(n, rest, acc) ==
    IF n = 0 THEN Ok(acc, NewDecoder(rest), << >>)
    ELSE Once({ IF ~x.ok THEN x ELSE GenFields(n - 1, x.d.bytes, Append(acc, x.val[1])) :
                x \in { split_at_checked(rest, 1) } })

\* decode_tlv: validate_consumed(__rest)?; Ok((__result, rest))
GenFinish(f, rest) ==
    IF ~f.ok THEN f
    ELSE IF ~gen_validate_consumed(f.d.bytes).ok
    THEN Err(IoError("InvalidData"), f.d, << >>)
    ELSE Ok(f.val, NewDecoder(rest), << >>)

\* define_parameter: decode_tlv of a parameter with n fields of type u8
gen_decode_tlv(bytes, id, n) ==
    Once({ IF ~h.ok THEN h
           ELSE Once({ GenFinish(f, h.d.bytes) : f \in { GenFields(n, h.val, << >>) } }) :
           h \in { gen_parse_tlv_header(bytes, id) } })

MaxGenBytes == 5

GenByteVals == {0, 1, 2, 129}

InitGen ==
    /\ pc = "gen"
    /\ data \in SeqsUpTo(GenByteVals, MaxGenBytes)
    /\ decoder = NewDecoder(data)
    /\ encoder = NewEncoder(<< >>)
    /\ last = NoLast
    /\ value = NoValue

\* validate_consumed(data)
GenValidate ==
    /\ pc = "gen"
    /\ last' = [op |-> "gen_validate", f |-> U8Field, pre |-> decoder,
                res |-> gen_validate_consumed(data)]
    /\ pc' = "gendone"
    /\ UNCHANGED <<data, decoder, encoder, value>>

\* decode_tlv(data) of a parameter with id LeafId and n fields of type u8
GenDecodeTlv ==
    /\ pc = "gen"
    /\ \E n \in 0..2 :
       \E r \in { gen_decode_tlv(data, LeafId, n) } :
           /\ last' = [op |-> "gen_decode_tlv", f |-> U8Field, pre |-> decoder, res |-> r]
           /\ decoder' = r.d
           /\ value' = [ty |-> "fields", v |-> n]
    /\ pc' = "gendone"
    /\ UNCHANGED <<data, encoder>>

NextGen == GenValidate \/ GenDecodeTlv

SpecGen == InitGen /\ [][NextGen]_vars

\* the buffer begins with a header of the type LeafId whose payload is whole
\* and holds at least the fields
GenWellFramed ==
    /\ Len(data) >= 4
    /\ from_be_bytes(Take(data, 2)) % 1024 = LeafId
    /\ 4 + from_be_bytes(SubSeq(data, 3, 4)) <= Len(data)
    /\ from_be_bytes(SubSeq(data, 3, 4)) >= value.v

\* C23: in the llrp-gen runtime validate_consumed(data) returns Ok(()) when
\* data is empty and a trailing-bytes error when it is not, so the generated
\* decode_tlv succeeds exactly when the struct fields consume the whole
\* parameter payload.
C23_GenValidateConsumed ==
    /\ last.op = "gen_validate" => (last.res.ok <=> data = << >>)
    /\ (last.op = "gen_decode_tlv" /\ GenWellFramed) =>
         (last.res.ok <=> from_be_bytes(SubSeq(data, 3, 4)) = value.v)

\* What the llrp-gen runtime does: the test is inverted
GenValidateInverted ==
    /\ last.op = "gen_validate" => (last.res.ok <=> data # << >>)
    /\ (last.op = "gen_decode_tlv" /\ GenWellFramed) =>
         (last.res.ok <=> from_be_bytes(SubSeq(data, 3, 4)) > value.v)

-----------------------------------------------------------------------------
(* The llrp-common runtime (llrp-common/src/lib.rs) and the decode_tlv that *)
(* #[llrp_parameter] generates (llrp-message/src/lib.rs), on slices as      *)
(* above. A panic is the result Err(Panicked(..)): it passes through every  *)
(* caller. The structs are Outer { leaf: Leaf } and Leaf { n: u8 }.         *)

\* llrp-common parse_tlv_header: Ok((&data[4..len], len)); data[2], data[3]
\* and the slice 4..len panic when out of range
common_parse_tlv_header(bytes, target_type) ==
    IF Len(bytes) < 2
    THEN Err(IoError("InvalidData"), NewDecoder(bytes), << >>)
    ELSE IF from_be_bytes(Take(bytes, 2)) % 1024 # target_type
    THEN Err(InvalidType(from_be_bytes(Take(bytes, 2)) % 1024), NewDecoder(bytes), << >>)
    ELSE IF Len(bytes) < 4
    THEN Err(Panicked(Len(bytes)), NewDecoder(bytes), << >>)
    ELSE IF from_be_bytes(SubSeq(bytes, 3, 4)) > Len(bytes)
    THEN Err(IoError("InvalidData"), NewDecoder(bytes), << >>)
    ELSE IF from_be_bytes(SubSeq(bytes, 3, 4)) < 4
    THEN Err(Panicked(from_be_bytes(SubSeq(bytes, 3, 4))), NewDecoder(bytes), << >>)
    ELSE Ok(<< SubSeq(bytes, 5, from_be_bytes(SubSeq(bytes, 3, 4))),
               from_be_bytes(SubSeq(bytes, 3, 4)) >>, NewDecoder(bytes), << >>)

\* impl LLRPDecodable for u8
common_decode_u8(bytes) ==
    IF Len(bytes) < 1
    THEN Err(IoError("InvalidData"), NewDecoder(bytes), << >>)
    ELSE Ok(bytes[1], NewDecoder(Drop(bytes, 1)), << >>)

CommonId(ty) == IF ty = "Outer" THEN NodeId ELSE LeafId
CommonFieldTy(ty) == IF ty = "Outer" THEN "Leaf" ELSE "u8"

RECURSIVE common_decode_tlv(_, _)

\* decode_field with no attribute: <ty as LLRPDecodable>::decode(data)?
CommonDecodeField(ty, bytes) ==
    IF ty = "u8" THEN common_decode_u8(bytes) ELSE common_decode_tlv(ty, bytes)

\* llrp_parameter: decode_tlv after the fields (the check of __rest and the
\* result)
CommonFinish(bytes, param_len, f) ==
    IF ~f.ok THEN Err(f.err, NewDecoder(bytes), << >>)
    ELSE IF Len(f.d.bytes) # 0
    THEN Err(IoError("InvalidData"), NewDecoder(bytes), << >>)
    ELSE Ok(<< f.val >>, NewDecoder(Drop(bytes, param_len)), << >>)

\* llrp_parameter: decode_tlv of a struct with one field
common_decode_tlv(ty, bytes) ==
    Once({ IF ~h.ok THEN h
           ELSE Once({ CommonFinish(bytes, h.val[2], f) :
                       f \in { CommonDecodeField(CommonFieldTy(ty), h.val[1]) } }) :
           h \in { common_parse_tlv_header(bytes, CommonId(ty)) } })

\* A variant of OptionAbsorbs that lets every error through
OptionAbsorbsNone(r) == FALSE

\* Err(Error::InvalidType(_)) => the arm of Option<T> and Vec<T> that turns
\* an error into the end of the field
OptionAbsorbs(r) == r.err.kind = "InvalidType"

\* impl TlvDecodable for Option<T>
common_option_decode_tlv(ty, bytes) ==
    IF Len(bytes) = 0 THEN Ok(<< >>, NewDecoder(bytes), << >>)
    ELSE Once({ IF r.ok THEN Ok(<< r.val >>, r.d, << >>)
                ELSE IF OptionAbsorbs(r) THEN Ok(<< >>, NewDecoder(bytes), << >>)
                ELSE Err(r.err, NewDecoder(bytes), << >>) :
                r \in { common_decode_tlv(ty, bytes) } })

\* impl TlvDecodable for Vec<T>: the loop
RECURSIVE CommonVecLoop(_, _, _)
CommonVecLoop(ty, rest, output) ==
    IF ~(Len(rest) > 0) THEN Ok(output, NewDecoder(rest), << >>)
    ELSE Once({ IF r.ok THEN CommonVecLoop(ty, r.d.bytes, Append(output, r.val))
                ELSE IF OptionAbsorbs(r) THEN Ok(output, NewDecoder(rest), << >>)
                ELSE Err(r.err, NewDecoder(rest), << >>) :
                r \in { common_decode_tlv(ty, rest) } })

common_vec_decode_tlv(ty, bytes) == CommonVecLoop(ty, bytes, << >>)

MaxCommonPieces == 4

CommonPieces ==
    { << 0, 128 >>, << 0, 129 >>, << 0, 130 >>, << 0, 3 >>, << 0, 4 >>, << 0, 5 >>,
      << 0, 8 >>, << 0, 9 >>, << 7 >> }

RECURSIVE CommonBuffers(_)
CommonBuffers(n) ==
    IF n = 0 THEN {<< >>}
    ELSE CommonBuffers(n - 1) \cup { p \o t : p \in CommonPieces, t \in CommonBuffers(n - 1) }

InitCommon ==
    /\ pc = "common"
    /\ data \in CommonBuffers(MaxCommonPieces)
    /\ decoder = NewDecoder(data)
    /\ encoder = NewEncoder(<< >>)
    /\ last = NoLast
    /\ value = NoValue

CommonStep(op, ty, r) ==
    /\ last' = [op |-> op, f |-> TlvField("Raw", ty), pre |-> decoder, res |-> r]
    /\ decoder' = r.d
    /\ pc' = "commondone"
    /\ UNCHANGED <<data, encoder, value>>

\* parse_tlv_header(data, target_type)
CommonParseHeader ==
    /\ pc = "common"
    /\ \E ty \in {"Outer", "Leaf"} :
           CommonStep("common_header", ty, common_parse_tlv_header(data, CommonId(ty)))

\* T::decode_tlv(data)
CommonDecodeTlv ==
    /\ pc = "common"
    /\ \E ty \in {"Outer", "Leaf"} : CommonStep("common_tlv", ty, common_decode_tlv(ty, data))

\* Option<T>::decode_tlv(data)
CommonDecodeOption ==
    /\ pc = "common"
    /\ \E ty \in {"Outer", "Leaf"} :
           CommonStep("common_option", ty, common_option_decode_tlv(ty, data))

\* Vec<T>::decode_tlv(data)
CommonDecodeVec ==
    /\ pc = "common"
    /\ \E ty \in {"Outer", "Leaf"} :
           CommonStep("common_vec", ty, common_vec_decode_tlv(ty, data))

NextCommon == CommonParseHeader \/ CommonDecodeTlv \/ CommonDecodeOption \/ CommonDecodeVec

SpecCommon == InitCommon /\ [][NextCommon]_vars

\* the slice begins with the 10-bit type number id
StartsWithType(b, id) == Len(b) >= 2 /\ (b[1] * 256 + b[2]) % 1024 = id

\* C25: llrp_common::parse_tlv_header never aborts: for every slice,
\* including slices of 2 or 3 bytes whose type matches and headers whose
\* length field is below 4, it returns Ok((data[4..len], len)) or an Err.
C25_ParseHeaderNeverAborts ==
    last.op = "common_header" =>
        /\ last.res.err.kind # "panic"
        /\ last.res.ok =>
             last.res.val = << SubSeq(data, 5, data[3] * 256 + data[4]),
                               data[3] * 256 + data[4] >>

\* When parse_tlv_header does abort: the type matches and the slice or the
\* length field is shorter than the header
ParseHeaderAbortsOnShortHeader ==
    last.op = "common_header" =>
        /\ last.res.err.kind = "panic" <=>
             /\ StartsWithType(data, CommonId(last.f.ty))
             /\ Len(data) < 4 \/ data[3] * 256 + data[4] < 4
        /\ last.res.ok =>
             last.res.val = << SubSeq(data, 5, data[3] * 256 + data[4]),
                               data[3] * 256 + data[4] >>

\* C26: in the llrp-common runtime Option<T>::decode_tlv returns None only
\* when the header at the cursor is not T's own type: an InvalidType from a
\* required nested parameter inside T's body is returned to the caller, not
\* turned into None with the cursor rewound; Vec<T>::decode_tlv likewise does
\* not end its run on it.
C26_NoneOnlyOnOtherHeader ==
    /\ (last.op = "common_option" /\ last.res.ok /\ last.res.val = << >>) =>
         ~StartsWithType(data, CommonId(last.f.ty))
    /\ (last.op = "common_vec" /\ last.res.ok) =>
         ~StartsWithType(decoder.bytes, CommonId(last.f.ty))

\* What Option<T> and Vec<T> do: they stop on every InvalidType that T's
\* decode_tlv returns, the one of T's header and the one of a nested header
NoneOnEveryInvalidType ==
    /\ (last.op = "common_option" /\ last.res.ok /\ last.res.val = << >>) =>
         \/ data = << >>
         \/ common_decode_tlv(last.f.ty, data).err.kind = "InvalidType"
    /\ (last.op = "common_vec" /\ last.res.ok) =>
         \/ decoder.bytes = << >>
         \/ common_decode_tlv(last.f.ty, decoder.bytes).err.kind = "InvalidType"

-----------------------------------------------------------------------------
(* TV parameter structs (define_tv_parameter with no field or with several) *)
(* and the loop of Vec<T>::decode, one iteration per step. Pair has two u8  *)
(* fields, Unit has none.                                                   *)

PairTvId == 3
UnitTvId == 4

TvStructs == {"Pair", "Unit"}

TvStructDef(ty) ==
    IF ty = "Pair" THEN [id |-> PairTvId, fields |-> << U8Field, U8Field >>]
    ELSE [id |-> UnitTvId, fields |-> << >>]

\* define_tv_parameter: decode (the fields in order, on the decoder as it is)
TvStruct_decode(ty, d) == DecodeFields(TvStructDef(ty).fields, 1, d, << >>, << >>)

\* T::decode and T::can_decode_type for an element type of a Vec
ElementDecode(ty, d) == IF ty \in TvStructs THEN TvStruct_decode(ty, d) ELSE DecodeTy(ty, d)
ElementCanDecode(ty, type_num) ==
    IF ty \in TvStructs THEN type_num = TvStructDef(ty).id ELSE can_decode_type(ty, type_num)

MaxVecPieces == 3
MaxVecIters == 4

VecPieces ==
    { << 0, 130, 0, 4 >>, << 0, 129, 0, 5, 7 >>, << 130, 9 >>, << 131, 1, 2 >>,
      << 132 >>, << 132, 0 >>, << 0 >> }

RECURSIVE VecBuffers(_)
VecBuffers(n) ==
    IF n = 0 THEN {<< >>}
    ELSE VecBuffers(n - 1) \cup { p \o t : p \in VecPieces, t \in VecBuffers(n - 1) }

VecElementTypes == {"Mark", "Leaf", "Item", "Pair", "Unit"}

InitVecLoop ==
    /\ pc = "vecloop"
    /\ data \in VecBuffers(MaxVecPieces)
    /\ decoder = NewDecoder(data)
    /\ encoder = NewEncoder(<< >>)
    /\ last = NoLast
    /\ \E ty \in VecElementTypes : value = [ty |-> ty, v |-> << >>]

\* Ok(ty) if T::can_decode_type(ty) => output.push(T::decode(decoder)?)
VecIterate ==
    /\ pc = "vecloop"
    /\ Len(value.v) < MaxVecIters
    /\ \E m \in { get_message_type(decoder) } : m.ok /\ ElementCanDecode(value.ty, m.val)
    /\ \E r \in { ElementDecode(value.ty, decoder) } :
           /\ last' = [op |-> "vec_push", f |-> U8Field, pre |-> decoder, res |-> r]
           /\ decoder' = r.d
           /\ value' = IF r.ok THEN [value EXCEPT !.v = Append(@, r.val)] ELSE value
           /\ pc' = IF r.ok THEN "vecloop" ELSE "vecfailed"
    /\ UNCHANGED <<data, encoder>>

\* _ => break, then Ok(output)
VecBreak ==
    /\ pc = "vecloop"
    /\ ~\E m \in { get_message_type(decoder) } : m.ok /\ ElementCanDecode(value.ty, m.val)
    /\ last' = [op |-> "vec_break", f |-> U8Field, pre |-> decoder,
                res |-> Ok(value.v, decoder, << >>)]
    /\ pc' = "vecdone"
    /\ UNCHANGED <<data, decoder, encoder, value>>

NextVecLoop == VecIterate \/ VecBreak

SpecVecLoop == InitVecLoop /\ [][NextVecLoop]_vars

\* C27: Vec<T>::decode terminates on every finite buffer: every loop
\* iteration that appends an element strictly decreases the decoder's
\* remaining byte count, so the loop ends by an error, a header that is not
\* accepted or an exhausted buffer.
C27_VecIterationConsumes ==
    [][(pc = "vecloop" /\ pc' = "vecloop") => Len(decoder'.bytes) < Len(decoder.bytes)]_vars

\* For element types that are TLV parameters, choices or TV structs with a
\* scalar field, an iteration that appends does consume bytes
VecIterationConsumesUnlessFieldless ==
    [][(pc = "vecloop" /\ pc' = "vecloop" /\ value.ty # "Unit")
          => Len(decoder'.bytes) < Len(decoder.bytes)]_vars

\* With the element type Unit the loop does not leave a header it accepts
FieldlessElementLoops ==
    (value.ty = "Unit" /\ last.op = "vec_push") => (last.res.ok /\ decoder = last.pre)

-----------------------------------------------------------------------------
(* The TLV header of every type number the normaliser admits: written by    *)
(* Encoder::tlv_param with an empty body, read by peek_param_type and by    *)
(* Decoder::tlv_param. value.v is the type number.                          *)

AdmittedTlvIds == { n \in (TvRangeEnd + 1)..(TypeNumLimit - 1) : TypeNumAdmitted(n) }

InitHeader ==
    /\ pc = "header"
    /\ \E id \in AdmittedTlvIds : value = [ty |-> "tlv_id", v |-> id]
    /\ data = << >>
    /\ decoder = NoDecoder
    /\ encoder = NewEncoder(<< >>)
    /\ last = NoLast

\* encoder.tlv_param(id, |_| {})
WriteHeader ==
    /\ pc = "header"
    /\ encoder' = encode_tlv_param(encoder, value.v, << >>, << >>)
    /\ pc' = "headerwritten"
    /\ UNCHANGED <<data, decoder, last, value>>

\* decoder.peek_param_type() on the bytes written
PeekHeader ==
    /\ pc = "headerwritten"
    /\ \E r \in { peek_param_type(NewDecoder(encoder.buffer)) } :
           /\ last' = [op |-> "header_peek", f |-> U8Field,
                       pre |-> NewDecoder(encoder.buffer), res |-> r]
           /\ decoder' = r.d
    /\ data' = encoder.buffer
    /\ pc' = "headerread"
    /\ UNCHANGED <<encoder, value>>

\* decoder.tlv_param(id, |_| Ok(())) on the bytes written
DecodeHeader ==
    /\ pc = "headerwritten"
    /\ \E r \in { tlv_param(NewDecoder(encoder.buffer), value.v, << >>) } :
           /\ last' = [op |-> "header_tlv", f |-> U8Field,
                       pre |-> NewDecoder(encoder.buffer), res |-> r]
           /\ decoder' = r.d
    /\ data' = encoder.buffer
    /\ pc' = "headerread"
    /\ UNCHANGED <<encoder, value>>

NextHeader == WriteHeader \/ PeekHeader \/ DecodeHeader

SpecHeader == InitHeader /\ [][NextHeader]_vars

\* C28: for every TLV type number the normaliser admits for a Parameter
\* (128 <= id < 2048), the header written by Encoder::tlv_param(id, ..) is
\* read back by peek_param_type as Tlv(id) and accepted by
\* Decoder::tlv_param(id, ..).
C28_AdmittedIdsReadBack ==
    /\ last.op = "header_peek" => (last.res.ok /\ last.res.val = Tlv(value.v))
    /\ last.op = "header_tlv" => (last.res.ok /\ decoder.bytes = << >>)

\* What is read back: the low 10 bits of the type number
HeaderReadBackLow10Bits ==
    /\ last.op = "header_peek" => (last.res.ok /\ last.res.val = Tlv(value.v % 1024))
    /\ last.op = "header_tlv" =>
         IF value.v < 1024
         THEN last.res.ok /\ decoder.bytes = << >>
         ELSE ~last.res.ok /\ last.res.err = InvalidType(value.v % 1024)

-----------------------------------------------------------------------------
(* Encoder::write_bits with values that do not fit the width: a u8 written  *)
(* with a width below 8 or a u16 with a width below 16 can hold bits at the *)
(* positions num_bits and above. value.v is the list of <<width, value>>    *)
(* written.                                                                 *)

WideWidths == {2, 4, 9, 12}

\* values of the type of an n-bit field: within the width, and with the bit
\* at position n set
WideVals(n) == {0, 1, Pow2(n) - 1, Pow2(n), Pow2(n) + 1}

InitWriteWide ==
    /\ pc = "widewrite"
    /\ data = << >>
    /\ decoder = NoDecoder
    /\ encoder = NewEncoder(<< >>)
    /\ last = NoLast
    /\ value = [ty |-> "fields", v |-> << >>]

\* encoder.write_bits(&v, n)
WriteWideField ==
    /\ pc = "widewrite"
    /\ Len(value.v) < MaxBitFields
    /\ \E n \in WideWidths : \E v \in WideVals(n) :
           /\ encoder' = write_bits(encoder, v, n)
           /\ value' = [value EXCEPT !.v = Append(@, << n, v >>)]
    /\ UNCHANGED <<data, decoder, last, pc>>

NextWriteWide == WriteWideField

SpecWriteWide == InitWriteWide /\ [][NextWriteWide]_vars

\* the encoder after write_bits of the low width bits of each value
RECURSIVE WriteLowBits(_, _)
WriteLowBits(fs, k) ==
    IF k = 0 THEN NewEncoder(<< >>)
    ELSE write_bits(WriteLowBits(fs, k - 1), LowBits(fs[k][2], fs[k][1]), fs[k][1])

\* C29: Encoder::write_bits(value, n) contributes only the low n bits of
\* value: bits of value at positions n and above never alter the bits written
\* by earlier write_bits calls nor any emitted byte.
C29_WriteBitsLowBitsOnly ==
    pc = "widewrite" =>
        \E low \in { WriteLowBits(value.v, Len(value.v)) } :
            /\ encoder.buffer = low.buffer
            /\ LowBits(encoder.bits, encoder.valid_bits) = LowBits(low.bits, low.valid_bits)

\* The same when every value fits its width
WriteBitsLowBitsWhenFitting ==
    (pc = "widewrite" /\ \A i \in 1..Len(value.v) : value.v[i][2] < Pow2(value.v[i][1])) =>
        encoder = WriteLowBits(value.v, Len(value.v))

-----------------------------------------------------------------------------
(* Encoding what the generated decoders produce. A field of a generated     *)
(* message is decoded by decode_field and its value is encoded by           *)
(* encode_field: a TV parameter struct read by read_tv (Pair), an array of  *)
(* enumeration variants, a single variant, a TLV parameter (Leaf).          *)
(* unimplemented!() ends the encode with a panic.                           *)

GeneratedKinds == {"Pair", "EnumArray", "Enum", "Leaf"}

\* the value table of the enumeration of the Enum and EnumArray fields
GeneratedTable == {0, 2, 3}

\* the default LLRPValue::decode_tv for a struct of define_tv_parameter
TvStructAfterHeader(ty, c) == IF ~c.ok THEN c ELSE TvStruct_decode(ty, c.d)

TvStruct_decode_tv(ty, d) ==
    Once({ TvStructAfterHeader(ty, c) : c \in { check_param_type(d, TvStructDef(ty).id) } })

\* codegen.rs decode_field for the field of each kind
GeneratedDecode(kind, d) ==
    CASE kind = "Pair" -> TvStruct_decode_tv("Pair", d)
      [] kind = "EnumArray" -> read_enum_array(d, GeneratedTable, 1)
      [] kind = "Enum" -> read_enum(d, GeneratedTable, 1)
      [] OTHER -> DecodeTy("Leaf", d)

\* the outcome of an encode: the encoder as it was left and whether the
\* encode returned
Encoded(e) == [ok |-> TRUE, e |-> e, err |-> NoErr]
Unimplemented(e) == [ok |-> FALSE, e |-> e, err |-> Panicked(0)]

\* the default LLRPValue::encode_tv for a struct of define_tv_parameter,
\* which has no encode of its own: the header, then the default
\* LLRPValue::encode
TvStruct_encode_tv(ty, e, v) == Unimplemented(write_param_type(e, Tv(TvStructDef(ty).id)))

\* codegen.rs encode_field for the field of each kind
GeneratedEncode(kind, e, v) ==
    CASE kind = "Pair" -> TvStruct_encode_tv("Pair", e, v)
      [] kind = "EnumArray" -> Unimplemented(e)
      [] kind = "Enum" -> Encoded(write_primitive(e, to_value("u8", v), 1))
      [] OTHER -> Encoded(EncodeTy("Leaf", e, v))

MaxGeneratedPieces == 2

GeneratedPieces ==
    { << 131, 1, 2 >>, << 131, 0, 0 >>, << 0, 129, 0, 5, 7 >>, << 0, 129, 0, 5, 0 >>,
      << 0, 1, 2 >>, << 0, 2, 0, 3 >>, << 0, 0 >>, << 2 >>, << 3 >>, << 1 >> }

RECURSIVE GeneratedBuffers(_)
GeneratedBuffers(n) ==
    IF n = 0 THEN {<< >>}
    ELSE GeneratedBuffers(n - 1)
           \cup { p \o t : p \in GeneratedPieces, t \in GeneratedBuffers(n - 1) }

InitGenerated ==
    /\ pc = "generated"
    /\ data \in GeneratedBuffers(MaxGeneratedPieces)
    /\ decoder = NewDecoder(data)
    /\ encoder = NewEncoder(<< >>)
    /\ last = NoLast
    /\ \E kind \in GeneratedKinds : value = [ty |-> kind, v |-> << >>]

\* the field is decoded
DecodeGenerated ==
    /\ pc = "generated"
    /\ \E r \in { GeneratedDecode(value.ty, decoder) } :
           /\ last' = [op |-> "decode_field", f |-> U8Field, pre |-> decoder, res |-> r]
           /\ decoder' = r.d
           /\ value' = IF r.ok THEN [value EXCEPT !.v = r.val] ELSE value
           /\ pc' = IF r.ok THEN "produced" ELSE "unproduced"
    /\ UNCHANGED <<data, encoder>>

\* the value that was decoded is encoded
EncodeGenerated ==
    /\ pc = "produced"
    /\ \E r \in { GeneratedEncode(value.ty, encoder, value.v) } :
           /\ last' = [op |-> "encode_field", f |-> U8Field, pre |-> decoder,
                       res |-> IF r.ok THEN Ok(<< >>, decoder, << >>)
                               ELSE Err(r.err, decoder, << >>)]
           /\ encoder' = r.e
    /\ pc' = "reencoded"
    /\ UNCHANGED <<data, decoder, value>>

NextGenerated == DecodeGenerated \/ EncodeGenerated

SpecGenerated == InitGenerated /\ [][NextGenerated]_vars

\* C30: every value that the generated decoders can produce can be encoded
\* without abort: no encode path reachable from a generated message
\* (multi-field TV parameter structs, enumeration-array fields, or any type
\* falling back to the default LLRPValue::encode) ends in an unimplemented
\* operation.
C30_DecodedValuesEncode ==
    pc = "reencoded" => last.res.ok

\* The encode returns for single variants and TLV parameters, and gives back
\* the bytes that were decoded
EncodeReturnsForVariantsAndParameters ==
    (pc = "reencoded" /\ value.ty \in {"Enum", "Leaf"}) =>
        /\ last.res.ok
        /\ encoder.buffer = Take(data, Len(data) - Len(decoder.bytes))

\* The encode of a TV parameter struct or of an array of variants never
\* returns
StructsAndVariantArraysAbort ==
    (pc = "reencoded" /\ value.ty \in {"Pair", "EnumArray"}) =>
        last.res.err.kind = "panic"

====
